---- MODULE Spec2Model ----
(***************************************************************************)
(* Neighbourhood / vicinity processing of the IMPROVER excerpt:            *)
(*   improver/utilities/spatial.py      grid geometry, differences and     *)
(*       gradients between grid squares, OccurrenceWithinVicinity          *)
(*   lib/improver/nbhood/use_nbhood.py  ApplyNeighbourhoodProcessingWithAMask,*)
(*       CollapseMaskedNeighbourhoodCoordinate                             *)
(*                                                                         *)
(* Numbers.  Coordinate points and distances are integers in metres.  A    *)
(* grid spacing is the mean of integer differences, so it is kept as an    *)
(* exact fraction num/den; comparisons are cross-multiplied.  Weights are  *)
(* exact fractions too.  Floating-point rounding is not modelled.          *)
(*                                                                         *)
(* Python's None is the empty tuple <<>>, a present value v is <<v>>.      *)
(***************************************************************************)
EXTENDS Integers, Sequences, FiniteSets, TLC

VARIABLES
    gx,        \* grid spec: points of the cube's x axis
    gy,        \* grid spec: points of the cube's y axis
    gop,       \* grid spec: the function called last
    garg,      \* grid spec: its numeric argument (distance or grid_points)
    gres,      \* grid spec: what it returned or raised
    int_cast,  \* vicinity spec: what the numpy in use does with an out-of-bound integer
    pargs,     \* vicinity spec: the arguments given to OccurrenceWithinVicinity(...)
    plugin,    \* vicinity spec: the instance constructed, or the constructor's error
    vin,       \* vicinity spec: the cube as it was passed to process
    vcube,     \* vicinity spec: the caller's cube object after the call
    vout,      \* vicinity spec: what process returned or raised
    cw0,       \* collapse spec: self.weights as it was before the latest call
    cweights,  \* collapse spec: self.weights, the plugin's weights object
    cin,       \* collapse spec: the cube as it was passed to process
    ccube,     \* collapse spec: the caller's cube object after the call
    cout,      \* collapse spec: what process returned or raised
    cfirst,    \* collapse spec: the first of two calls (its cube, the weights around it)
    dcube,     \* difference spec: the cube passed to the plugin
    dop,       \* difference spec: the plugin called ("difference", "gradient")
    dregrid,   \* difference spec: the regrid argument of the gradient plugin
    dres,      \* difference spec: the pair of cubes returned, or the error
    acube,     \* masked neighbourhood spec: the cube passed to process
    amask,     \* masked neighbourhood spec: the mask cube passed to process
    aout       \* masked neighbourhood spec: what process returned or raised

gridVars == <<gx, gy, gop, garg, gres>>

vicVars == <<int_cast, pargs, plugin, vin, vcube, vout>>

colVars == <<cw0, cweights, cin, ccube, cout, cfirst>>

diffVars == <<dcube, dop, dregrid, dres>>

applyVars == <<acube, amask, aout>>

vars == <<gx, gy, gop, garg, gres, int_cast, pargs, plugin, vin, vcube, vout,
          cw0, cweights, cin, ccube, cout, cfirst, dcube, dop, dregrid, dres,
          acube, amask, aout>>

None == <<>>
Some(v) == <<v>>
IsNone(o) == o = <<>>
Val(o) == o[1]

Abs(a) == IF a < 0 THEN -a ELSE a

RECURSIVE SumSeq(_)
SumSeq(s) == IF s = <<>> THEN 0 ELSE Head(s) + SumSeq(Tail(s))

(***************************************************************************)
(* Bounds of the grid-geometry inputs.                                     *)
(***************************************************************************)
MaxN == 4          \* longest axis, in points
MaxDelta == 3      \* largest perturbation of one point, in metres
MaxCells == 3      \* largest grid_points / distance in cells tried

(***************************************************************************)
(* rtol = 1.0e-5 of calculate_grid_spacing (and the default of np.isclose),*)
(* kept as its inverse.                                                    *)
(***************************************************************************)
RtolInv == 100000

\* The step of the axes tried: rtol * Step = 2 m, so perturbations of 1 and 2 m
\* are within the tolerance and 3 m is beyond it.
Step == 2 * RtolInv

(***************************************************************************)
(* Results: a returned fraction num/den (den = 1 for an integer), or a     *)
(* raised ValueError with its message.                                     *)
(***************************************************************************)
Ret(n, d) == [ok |-> TRUE, num |-> n, den |-> d, err |-> ""]
Raise(msg) == [ok |-> FALSE, num |-> 0, den |-> 1, err |-> msg]
NoRes == [ok |-> FALSE, num |-> 0, den |-> 1, err |-> "not called"]

\* Variant: the differences without np.abs.
SignedDiffs(pts) == [i \in 1..(Len(pts) - 1) |-> pts[i + 1] - pts[i]]

\* np.abs(np.diff(coord.points))
AbsDiffs(pts) == [i \in 1..(Len(pts) - 1) |-> Abs(pts[i + 1] - pts[i])]

\* np.allclose(diffs, diffs_mean, rtol=rtol, atol=0.0) with diffs_mean = total/n:
\* |d - total/n| <= rtol * total/n for every d, multiplied through by n; the
\* left side is an integer, so it is compared with the floor of the right side.
AllCloseToMean(diffs, total, n) ==
    \A i \in 1..Len(diffs) : Abs(diffs[i] * n - total) <= total \div RtolInv

calculate_grid_spacing(pts) ==
    LET diffs == AbsDiffs(pts)
        total == SumSeq(diffs)
        n == Len(diffs)
    IN  IF ~AllCloseToMean(diffs, total, n)
        THEN Raise("points are not equally spaced")
        ELSE Ret(total, n)

\* np.isclose(x, y): |x - y| <= atol + rtol * |y| with atol = 1e-8, rtol = 1e-5.
\* For fractions of integers with denominators below 10 the atol term is less
\* than one unit of the cross-multiplied integers and cannot change the result.
IsClose(x, y) ==
    Abs(x.num * y.den - y.num * x.den) <= (y.num * x.den) \div RtolInv

check_if_grid_is_equal_area(xpts, ypts, require_equal_xy_spacing) ==
    LET x_diff == calculate_grid_spacing(xpts)
        y_diff == calculate_grid_spacing(ypts)
    IN  IF ~x_diff.ok THEN x_diff
        ELSE IF ~y_diff.ok THEN y_diff
        ELSE IF require_equal_xy_spacing /\ ~IsClose(x_diff, y_diff)
        THEN Raise("Grid does not have equal spacing in x and y dimensions")
        ELSE Ret(0, 1)

\* int(): truncation toward zero of the fraction n/d, d > 0.
TruncDiv(n, d) == IF n >= 0 THEN n \div d ELSE -((-n) \div d)

\* Variant: without the check for a zero cell extent.
distance_to_number_of_grid_cells_nozero(pts, distance, return_int) ==
    IF distance <= 0
    THEN Raise("Please specify a positive distance in metres")
    ELSE LET grid_spacing_metres == calculate_grid_spacing(pts)
         IN  IF ~grid_spacing_metres.ok THEN grid_spacing_metres
             ELSE IF ~return_int
             THEN Ret(distance * grid_spacing_metres.den, grid_spacing_metres.num)
             ELSE Ret(TruncDiv(distance * grid_spacing_metres.den,
                               grid_spacing_metres.num), 1)

distance_to_number_of_grid_cells(pts, distance, return_int) ==
    IF distance <= 0
    THEN Raise("Please specify a positive distance in metres")
    ELSE LET grid_spacing_metres == calculate_grid_spacing(pts)
         IN  IF ~grid_spacing_metres.ok THEN grid_spacing_metres
             ELSE IF ~return_int
             THEN Ret(distance * grid_spacing_metres.den, grid_spacing_metres.num)
             ELSE LET grid_cells == TruncDiv(distance * grid_spacing_metres.den,
                                             grid_spacing_metres.num)
                  IN  IF grid_cells = 0
                      THEN Raise("gives zero cell extent")
                      ELSE Ret(grid_cells, 1)

\* Variant: the spacing is returned without multiplying by grid_points.
number_of_grid_cells_to_distance_nomult(xpts, ypts, grid_points) ==
    LET area == check_if_grid_is_equal_area(xpts, ypts, TRUE)
        spacing == calculate_grid_spacing(xpts)
    IN  IF ~area.ok THEN area
        ELSE Ret(spacing.num, spacing.den)

number_of_grid_cells_to_distance(xpts, ypts, grid_points) ==
    LET area == check_if_grid_is_equal_area(xpts, ypts, TRUE)
        spacing == calculate_grid_spacing(xpts)
    IN  IF ~area.ok THEN area
        ELSE Ret(spacing.num * grid_points, spacing.den)

(***************************************************************************)
(* Axes tried: n points from 0 with step st, the k-th moved by delta.      *)
(***************************************************************************)
Axis(n, st, k, delta) ==
    [i \in 1..n |-> (i - 1) * st + (IF i = k THEN delta ELSE 0)]

XAxes ==
    { Axis(n, st, k, delta) :
        n \in 2..MaxN, st \in {Step, -Step}, k \in 1..MaxN,
        delta \in (-MaxDelta)..MaxDelta }

YAxes(n) == { Axis(n, st, 0, 0) : st \in {Step, Step + 1, 2 * Step} }

Distances ==
    {-Step, -1, 0, 1, Step - 1} \cup
    UNION { {c * Step, c * Step + 1, c * Step + Step \div 2} : c \in 1..MaxCells }

GridInit ==
    /\ gx \in XAxes
    /\ gy \in YAxes(Len(gx))
    /\ gop = "none"
    /\ garg = 0
    /\ gres = NoRes
    /\ pargs = <<>>
    /\ plugin = <<>>
    /\ vin = <<>>
    /\ vcube = <<>>
    /\ vout = <<>>
    /\ int_cast = <<>>
    /\ dcube = <<>> /\ dop = "none" /\ dregrid = FALSE /\ dres = <<>>
    /\ acube = <<>> /\ amask = <<>> /\ aout = <<>>
    /\ cw0 = <<>> /\ cweights = <<>> /\ cin = <<>> /\ ccube = <<>> /\ cout = <<>>
    /\ cfirst = <<>>

CalcGridSpacing ==
    /\ \E axis \in {"x", "y"} :
        /\ gop' = "spacing_" \o axis
        /\ gres' = calculate_grid_spacing(IF axis = "x" THEN gx ELSE gy)
    /\ garg' = 0
    /\ UNCHANGED <<gx, gy, vicVars, colVars, diffVars, applyVars>>

DistanceToCells ==
    /\ \E distance \in Distances :
        /\ garg' = distance
        /\ gres' = distance_to_number_of_grid_cells(gx, distance, TRUE)
    /\ gop' = "d2c"
    /\ UNCHANGED <<gx, gy, vicVars, colVars, diffVars, applyVars>>

\* number_of_grid_cells_to_distance applied to the cell count the last
\* distance_to_number_of_grid_cells call returned for distance garg.
RoundTrip ==
    /\ gop = "d2c"
    /\ gres.ok
    /\ gop' = "roundtrip"
    /\ gres' = number_of_grid_cells_to_distance(gx, gy, gres.num)
    /\ UNCHANGED <<gx, gy, garg, vicVars, colVars, diffVars, applyVars>>

CellsToDistance ==
    /\ \E grid_points \in 0..MaxCells :
        /\ garg' = grid_points
        /\ gres' = number_of_grid_cells_to_distance(gx, gy, grid_points)
    /\ gop' = "c2d"
    /\ UNCHANGED <<gx, gy, vicVars, colVars, diffVars, applyVars>>

GridNext ==
    \/ CalcGridSpacing
    \/ DistanceToCells
    \/ RoundTrip
    \/ CellsToDistance

SpecGrid == GridInit /\ [][GridNext]_vars

(***************************************************************************)
(* Grid geometry: claims C6, C7, C8 (checked under SpecGrid).              *)
(***************************************************************************)
SpacingOf(pts) == calculate_grid_spacing(pts)

\* The x axis is the equally spaced axis of n points with step st whose k-th
\* point is moved by delta.
IsMoved(n, st, k, delta) == Len(gx) = n /\ k \in 1..n /\ gx = Axis(n, st, k, delta)

BeyondRtol(delta) == delta # 0 /\ Abs(delta) * RtolInv > Step

AxisParams ==
    { <<n, st, k, delta>> : n \in 2..MaxN, st \in {Step, -Step}, k \in 1..MaxN,
                            delta \in (-MaxDelta)..MaxDelta }

\* C6: distance_to_number_of_grid_cells(cube, distance, axis, return_int=True)
\* raises for every distance <= 0, raises for every positive distance smaller
\* than the grid spacing, and otherwise returns the integer R >= 1 with
\* R * spacing <= distance < (R + 1) * spacing (spacing is the fraction num/den
\* that calculate_grid_spacing returns for the axis).
C6_DistanceToCells ==
    gop = "d2c" =>
        LET sp == SpacingOf(gx)
        IN  /\ garg <= 0 => ~gres.ok
            /\ (sp.ok /\ garg > 0 /\ garg * sp.den < sp.num) => ~gres.ok
            /\ (sp.ok /\ garg * sp.den >= sp.num) =>
                   /\ gres.ok
                   /\ gres.den = 1
                   /\ gres.num >= 1
                   /\ gres.num * sp.num <= garg * sp.den
                   /\ garg * sp.den < (gres.num + 1) * sp.num

\* A distance strictly between two and three cells has been resolved to 2.
C6_Witness ==
    /\ gop = "d2c"
    /\ gres.ok
    /\ gres.num = 2
    /\ garg = 2 * Step + Step \div 2

\* C7 as claimed: calculate_grid_spacing returns the step for every equally
\* spaced axis (positive also when the axis strides negatively) and raises for
\* every axis with one point, at any position and for any length, moved by more
\* than rtol relative to the step.
C7_AnyMovedPointRaises ==
    gop = "spacing_x" =>
        \A p \in AxisParams :
            IsMoved(p[1], p[2], p[3], p[4]) =>
                /\ p[4] = 0 => (gres.ok /\ gres.num = Step * gres.den)
                /\ BeyondRtol(p[4]) => ~gres.ok

\* C7 amended: the step is returned for every equally spaced axis, and the
\* error is raised whenever an interior point (neither the first nor the last,
\* so the axis has at least three points) is moved by more than rtol relative
\* to the step.
C7_InteriorMovedPointRaises ==
    gop = "spacing_x" =>
        \A p \in AxisParams :
            IsMoved(p[1], p[2], p[3], p[4]) =>
                /\ p[4] = 0 => (gres.ok /\ gres.num = Step * gres.den)
                /\ (BeyondRtol(p[4]) /\ 1 < p[3] /\ p[3] < p[1]) => ~gres.ok

\* An axis striding negatively with an interior point moved beyond the
\* tolerance has been rejected.
C7_Witness ==
    /\ gop = "spacing_x"
    /\ ~gres.ok
    /\ \E p \in AxisParams :
           /\ IsMoved(p[1], p[2], p[3], p[4])
           /\ p[2] = -Step
           /\ BeyondRtol(p[4])
           /\ 1 < p[3] /\ p[3] < p[1]

\* C8: on an equal-area grid with the same spacing in x and y, for every
\* positive distance d that is an exact multiple of the spacing,
\* number_of_grid_cells_to_distance(cube, distance_to_number_of_grid_cells(cube, d))
\* is d.
C8_RoundTrip ==
    gop = "roundtrip" =>
        LET sp == SpacingOf(gx)
        IN  (/\ check_if_grid_is_equal_area(gx, gy, TRUE).ok
             /\ garg > 0
             /\ \E c \in 1..(MaxCells + 1) : garg * sp.den = c * sp.num) =>
                (gres.ok /\ gres.num = garg * gres.den)

\* The distance of two cells has gone through both conversions.
C8_Witness ==
    /\ gop = "roundtrip"
    /\ garg = 2 * Step
    /\ gres.ok
    /\ gres.num = garg * gres.den

(***************************************************************************)
(* OccurrenceWithinVicinity (spatial.py).                                  *)
(*                                                                         *)
(* A 2D slice is a function on Cell = (1..NY) x (1..NX), <<y, x>>.  A      *)
(* numpy array that may be masked is a pair of functions data and mask; a  *)
(* plain ndarray has mask FALSE everywhere.                                *)
(***************************************************************************)
NX == 3            \* bound: points along x of the slices tried
NY == NX - 1       \* points along y
MaxR == 1          \* bound: largest grid_point_radius tried

Cell == (1..NY) \X (1..NX)

NoMask == [c \in Cell |-> FALSE]

SetMax(S) == CHOOSE v \in S : \A w \in S : v >= w

\* netCDF4.default_fillvals.get(cube_dtype.str[1:], np.inf): the library's
\* table gives -2147483647 for 'i4', 255 for 'u1' and 9.969209968386869e36 for
\* 'f4'; the latter is scaled to an integer above every data value tried.
default_fillvals(dtype) ==
    CASE dtype = "i4" -> -2147483647
      [] dtype = "u1" -> 255
      [] dtype = "f4" -> 1000000000

\* What an integer assigned into an array of an unsigned type it does not fit
\* becomes: numpy before 2.0 wraps it, numpy from 2.0 raises OverflowError.
IntCasts == {"wrap", "raise"}

\* array[index] = -cube_fill_value for an array of type dtype: the value the
\* cells hold afterwards, or the failure of the assignment.
StoreSentinel(dtype, cast) ==
    LET v == -default_fillvals(dtype)
    IN  IF dtype = "u1"
        THEN IF cast = "wrap" THEN [ok |-> TRUE, val |-> v % 256]
             ELSE [ok |-> FALSE, val |-> 0]
        ELSE [ok |-> TRUE, val |-> v]

\* Index j (0-based, possibly outside 0..n-1) of scipy's mode='reflect'
\* boundary (d c b a | a b c d | d c b a).
Reflect(j, n) ==
    LET m == j % (2 * n)
    IN  IF m < n THEN m ELSE 2 * n - 1 - m

\* scipy.ndimage maximum_filter(arr, size=size), default mode 'reflect',
\* origin 0: the window of cell i along an axis is i - size//2 .. i + size//2.
maximum_filter(arr, size) ==
    LET half == size \div 2
    IN  [c \in Cell |->
            SetMax({ arr[<<Reflect(c[1] - 1 + dy, NY) + 1,
                           Reflect(c[2] - 1 + dx, NX) + 1>>] :
                     dy \in (-half)..half, dx \in (-half)..half })]

\* np.ma.is_masked(cube.data)
is_masked(mask) == \E c \in Cell : mask[c]

VicRet(d, m) == [ok |-> TRUE, err |-> "", data |-> d, mask |-> m]
VicRaise(msg) == [ok |-> FALSE, err |-> msg, data |-> <<>>, mask |-> <<>>]

\* Variant: the two radii tested for truth instead of "is not None".
OccurrenceWithinVicinity_init_truthy(radius, grid_point_radius, land_mask_cube) ==
    IF (~IsNone(radius) /\ Val(radius) # 0)
       /\ (~IsNone(grid_point_radius) /\ Val(grid_point_radius) # 0)
    THEN [state |-> "error",
          err |-> "Only one of radius or grid_point_radius should be set"]
    ELSE IF ~IsNone(land_mask_cube) /\ Val(land_mask_cube).name # "land_binary_mask"
    THEN [state |-> "error",
          err |-> "Expected land_mask_cube to be called land_binary_mask"]
    ELSE [state |-> "ok",
          radius |-> radius,
          grid_point_radius |-> grid_point_radius,
          land_mask |->
              IF IsNone(land_mask_cube) THEN None
              ELSE Some([c \in Cell |-> 2 * Val(land_mask_cube).data[c] >= 1]),
          land_mask_cube |-> land_mask_cube]

\* OccurrenceWithinVicinity.__init__(radius, grid_point_radius, land_mask_cube):
\* the instance, or the error raised.  land_mask_cube is None or a record
\* [name, data, xpts, ypts].
OccurrenceWithinVicinity_init(radius, grid_point_radius, land_mask_cube) ==
    IF ~IsNone(radius) /\ ~IsNone(grid_point_radius)
    THEN [state |-> "error",
          err |-> "Only one of radius or grid_point_radius should be set"]
    ELSE IF ~IsNone(land_mask_cube) /\ Val(land_mask_cube).name # "land_binary_mask"
    THEN [state |-> "error",
          err |-> "Expected land_mask_cube to be called land_binary_mask"]
    ELSE [state |-> "ok",
          radius |-> radius,
          grid_point_radius |-> grid_point_radius,
          land_mask |->
              IF IsNone(land_mask_cube) THEN None
              ELSE Some([c \in Cell |-> 2 * Val(land_mask_cube).data[c] >= 1]),
          land_mask_cube |-> land_mask_cube]

\* Variant: a default of one cell when neither radius is given.
ResolveRadius_default1(self, xpts) ==
    IF ~IsNone(self.radius) /\ Val(self.radius) # 0
    THEN distance_to_number_of_grid_cells(xpts, Val(self.radius), TRUE)
    ELSE IF ~IsNone(self.grid_point_radius)
    THEN Ret(Val(self.grid_point_radius), 1)
    ELSE Ret(1, 1)

\* The radius in grid cells that maximum_within_vicinity resolves, or the
\* error of the conversion.
ResolveRadius(self, xpts) ==
    IF ~IsNone(self.radius) /\ Val(self.radius) # 0
    THEN distance_to_number_of_grid_cells(xpts, Val(self.radius), TRUE)
    ELSE IF ~IsNone(self.grid_point_radius)
    THEN Ret(Val(self.grid_point_radius), 1)
    ELSE Ret(0, 1)

\* Lines 475-481: land and sea processed separately and recombined.
LandSeaMaximum(unmasked_cube_data, land_mask, sentinel, grid_points) ==
    LET matched_max_data(match) ==
            maximum_filter(
                [c \in Cell |-> IF land_mask[c] # match THEN sentinel
                                ELSE unmasked_cube_data[c]],
                grid_points)
        land == matched_max_data(TRUE)
        sea == matched_max_data(FALSE)
    IN  [c \in Cell |-> IF land_mask[c] THEN land[c] ELSE sea[c]]

\* Variant: the maxima written into every cell, the masked ones included.
maximum_within_vicinity_all_cells(self, sl, xpts, dtype, cast) ==
    LET radius == ResolveRadius(self, xpts)
        stored == StoreSentinel(dtype, cast)
    IN  IF ~radius.ok THEN VicRaise(radius.err)
        ELSE IF (is_masked(sl.mask) \/ ~IsNone(self.land_mask_cube)) /\ ~stored.ok
        THEN VicRaise("OverflowError")
        ELSE
        LET grid_points == 2 * radius.num + 1
            sentinel == stored.val
            unmasked_cube_data ==
                IF is_masked(sl.mask)
                THEN [c \in Cell |-> IF sl.mask[c] THEN sentinel ELSE sl.data[c]]
                ELSE sl.data
            max_data ==
                IF ~IsNone(self.land_mask_cube)
                THEN LandSeaMaximum(unmasked_cube_data, Val(self.land_mask),
                                    sentinel, grid_points)
                ELSE maximum_filter(unmasked_cube_data, grid_points)
        IN  VicRet(max_data, sl.mask)

\* maximum_within_vicinity(self, cube) for one 2D slice sl = [data, mask] of a
\* cube with x points xpts and data type dtype, under the integer cast in use.
maximum_within_vicinity(self, sl, xpts, dtype, cast) ==
    LET radius == ResolveRadius(self, xpts)
        stored == StoreSentinel(dtype, cast)
    IN  IF ~radius.ok THEN VicRaise(radius.err)
        ELSE IF (is_masked(sl.mask) \/ ~IsNone(self.land_mask_cube)) /\ ~stored.ok
        THEN VicRaise("OverflowError")
        ELSE
        LET grid_points == 2 * radius.num + 1
            sentinel == stored.val
            unmasked_cube_data ==
                IF is_masked(sl.mask)
                THEN [c \in Cell |-> IF sl.mask[c] THEN sentinel ELSE sl.data[c]]
                ELSE sl.data
            max_data ==
                IF ~IsNone(self.land_mask_cube)
                THEN LandSeaMaximum(unmasked_cube_data, Val(self.land_mask),
                                    sentinel, grid_points)
                ELSE maximum_filter(unmasked_cube_data, grid_points)
        IN  IF is_masked(sl.mask)
            THEN VicRet([c \in Cell |-> IF sl.mask[c] THEN sl.data[c] ELSE max_data[c]],
                        sl.mask)
            ELSE VicRet(max_data, NoMask)

\* improver.utilities.cube_checker.spatial_coords_match: the x and y points
\* of the cubes are equal.
spatial_coords_match(cube, other) ==
    cube.xpts = other.xpts /\ cube.ypts = other.ypts

\* Variant: the coordinates compared after the slices have been processed.
OccurrenceWithinVicinity_process_check_last(self, cube, cast) ==
    LET max_cubes ==
            [z \in 1..Len(cube.slices) |->
                maximum_within_vicinity(self, cube.slices[z], cube.xpts, cube.dtype, cast)]
    IN  IF \E z \in 1..Len(max_cubes) : ~max_cubes[z].ok
        THEN [ok |-> FALSE,
              err |-> max_cubes[CHOOSE z \in 1..Len(max_cubes) : ~max_cubes[z].ok].err,
              slices |-> <<>>]
        ELSE IF ~IsNone(self.land_mask_cube)
                /\ ~spatial_coords_match(cube, Val(self.land_mask_cube))
        THEN [ok |-> FALSE,
              err |-> "Supplied cube do not have the same spatial coordinates and land mask",
              slices |-> <<>>]
        ELSE [ok |-> TRUE, err |-> "",
              slices |-> [z \in 1..Len(max_cubes) |->
                             [data |-> max_cubes[z].data, mask |-> max_cubes[z].mask]]]

\* process(self, cube): the coordinate check, then every 2D slice in turn; an
\* error in a slice ends the call.  Returns [ok, err, slices].  cast is the
\* integer cast in use.
OccurrenceWithinVicinity_process(self, cube, cast) ==
    IF ~IsNone(self.land_mask_cube)
       /\ ~spatial_coords_match(cube, Val(self.land_mask_cube))
    THEN [ok |-> FALSE,
          err |-> "Supplied cube do not have the same spatial coordinates and land mask",
          slices |-> <<>>]
    ELSE LET max_cubes ==
                 [z \in 1..Len(cube.slices) |->
                     maximum_within_vicinity(self, cube.slices[z], cube.xpts, cube.dtype, cast)]
         IN  IF \E z \in 1..Len(max_cubes) : ~max_cubes[z].ok
             THEN [ok |-> FALSE,
                   err |-> max_cubes[CHOOSE z \in 1..Len(max_cubes) :
                               /\ ~max_cubes[z].ok
                               /\ \A u \in 1..(z - 1) : max_cubes[u].ok].err,
                   slices |-> <<>>]
             ELSE [ok |-> TRUE, err |-> "",
                   slices |-> [z \in 1..Len(max_cubes) |->
                                  [data |-> max_cubes[z].data, mask |-> max_cubes[z].mask]]]

\* Variant: max_cube is the slice itself and the slice a view of the cube, so
\* that the maxima are written into the caller's data.
OccurrenceWithinVicinity_process_input_shared(self, cube, cast) ==
    LET r == OccurrenceWithinVicinity_process(self, cube, cast)
    IN  IF r.ok THEN [cube EXCEPT !.slices = r.slices] ELSE cube

\* The caller's cube after process(self, cube): each slice is handed to
\* maximum_within_vicinity, which writes to max_cube = cube.copy(), to
\* unmasked_cube_data and matched_data (both .copy()) and to the new max_data,
\* none of which shares memory with the cube.
OccurrenceWithinVicinity_process_input(self, cube, cast) == cube

(***************************************************************************)
(* Inputs of the vicinity specification.                                   *)
(***************************************************************************)
VicXPoints == [i \in 1..NX |-> (i - 1) * Step]
VicYPoints == [i \in 1..NY |-> (i - 1) * Step]

\* radius: not given, 0, below one cell, one cell, negative
Radii == {None, Some(0), Some(1), Some(Step), Some(-Step)}

GridPointRadii == {None} \cup { Some(r) : r \in 0..MaxR }

\* Land masks: a coast along a column or a row, or a one-cell island.
LandData ==
    { [c \in Cell |-> IF c[2] <= k THEN 1 ELSE 0] : k \in 0..NX } \cup
    { [c \in Cell |-> IF c[1] <= k THEN 1 ELSE 0] : k \in 1..(NY - 1) } \cup
    { [c \in Cell |-> IF c = i THEN 1 ELSE 0] : i \in Cell }

LandCube(name, data, xpts) ==
    [name |-> name, data |-> data, xpts |-> xpts, ypts |-> VicYPoints]

LandMaskCubes ==
    {None} \cup
    { Some(LandCube("land_binary_mask", d, VicXPoints)) : d \in LandData } \cup
    { Some(LandCube("surface_altitude", [c \in Cell |-> IF c[2] <= 1 THEN 1 ELSE 0],
                    VicXPoints)) }

\* Data: zero everywhere but a cell holding 2 and, possibly, a corner cell
\* holding 1.
SliceData ==
    { [c \in Cell |-> IF c = h2 THEN 2 ELSE IF c = h1 THEN 1 ELSE 0] :
        h2 \in Cell, h1 \in {<<1, 1>>, <<NY, NX>>} }

\* Masks: none, or one masked cell.
SliceMasks == {NoMask} \cup { [c \in Cell |-> c = m] : m \in Cell }

DTypes == {"f4", "i4", "u1"}

MirrorX(f) == [c \in Cell |-> f[<<c[1], NX + 1 - c[2]>>]]

VicCube(slices, dtype, xpts) ==
    [slices |-> slices, dtype |-> dtype, xpts |-> xpts, ypts |-> VicYPoints]

\* Cubes: one slice; two slices (the second the mirror image of the first);
\* one slice on a grid shifted against the land mask's.
VicCubes ==
    { VicCube(<<[data |-> d, mask |-> m]>>, t, VicXPoints) :
        d \in SliceData, m \in SliceMasks, t \in DTypes } \cup
    { VicCube(<<[data |-> d, mask |-> NoMask], [data |-> MirrorX(d), mask |-> NoMask]>>,
              t, VicXPoints) :
        d \in SliceData, t \in DTypes } \cup
    { VicCube(<<[data |-> d, mask |-> NoMask]>>, "f4",
              [i \in 1..NX |-> VicXPoints[i] + Step]) :
        d \in SliceData }

NoOut == [ok |-> FALSE, err |-> "not called", slices |-> <<>>]

VicInit ==
    /\ pargs \in
        { [radius |-> r, grid_point_radius |-> g, land_mask_cube |-> l] :
            r \in Radii, g \in GridPointRadii, l \in LandMaskCubes }
    /\ plugin = [state |-> "none"]
    /\ vin = <<>>
    /\ vcube = <<>>
    /\ vout = NoOut
    /\ int_cast \in IntCasts
    /\ gx = <<>> /\ gy = <<>> /\ gop = "none" /\ garg = 0 /\ gres = NoRes
    /\ cw0 = <<>> /\ cweights = <<>> /\ cin = <<>> /\ ccube = <<>> /\ cout = <<>>
    /\ cfirst = <<>>
    /\ dcube = <<>> /\ dop = "none" /\ dregrid = FALSE /\ dres = <<>>
    /\ acube = <<>> /\ amask = <<>> /\ aout = <<>>

\* plugin = OccurrenceWithinVicinity(radius, grid_point_radius, land_mask_cube)
Construct ==
    /\ plugin.state = "none"
    /\ plugin' = OccurrenceWithinVicinity_init(pargs.radius, pargs.grid_point_radius,
                                               pargs.land_mask_cube)
    /\ UNCHANGED <<int_cast, pargs, vin, vcube, vout,
                   gridVars, colVars, diffVars, applyVars>>

\* result = plugin.process(cube)
Process ==
    /\ plugin.state = "ok"
    /\ vin = <<>>
    /\ \E cube \in VicCubes :
        /\ vin' = cube
        /\ vcube' = OccurrenceWithinVicinity_process_input(plugin, cube, int_cast)
        /\ vout' = OccurrenceWithinVicinity_process(plugin, cube, int_cast)
    /\ UNCHANGED <<int_cast, pargs, plugin, gridVars, colVars, diffVars, applyVars>>

VicNext ==
    \/ Construct
    \/ Process

SpecVic == VicInit /\ [][VicNext]_vars

(***************************************************************************)
(* OccurrenceWithinVicinity: claims C1, C9, C10 (checked under SpecVic).   *)
(***************************************************************************)
Processed == vin # <<>>

\* The cells within R of c on the grid: the (2R+1) x (2R+1) window centred on c.
WindowCells(c, R) == { d \in Cell : Abs(d[1] - c[1]) <= R /\ Abs(d[2] - c[2]) <= R }

HasLandMask == ~IsNone(plugin.land_mask_cube)

SameCategory(c, d) == Val(plugin.land_mask)[c] = Val(plugin.land_mask)[d]

\* The radius in grid cells that the call used.
UsedRadius == ResolveRadius(plugin, vin.xpts).num

Unmasked(z) == ~is_masked(vin.slices[z].mask)

\* For the slices without masked cells: with a land mask the output at c is the
\* maximum of the input over the same-category cells of the window of c, and
\* without one it is the maximum over the whole window.
LandSeaMaximumHolds(dtypes) ==
    (Processed /\ vout.ok /\ vin.dtype \in dtypes) =>
        \A z \in 1..Len(vin.slices) : Unmasked(z) =>
            \A c \in Cell :
                vout.slices[z].data[c] =
                    SetMax({ vin.slices[z].data[d] :
                             d \in { e \in WindowCells(c, UsedRadius) :
                                     HasLandMask => SameCategory(c, e) } })

\* C1: with a land/sea mask configured, for every grid, every radius R >= 0 and
\* every cell c, the output of maximum_within_vicinity at c is the maximum of
\* the input over the cells of the (2R+1) x (2R+1) window centred on c that have
\* the land/sea category of c; without a mask it is the maximum over the window.
C1_LandSeaMaximum == LandSeaMaximumHolds(DTypes)

\* The same for float data, for which the sentinel -default_fillvals is below
\* every value.
LandSeaMaximumFloat == LandSeaMaximumHolds({"f4"})

\* The value 2 is held by a sea cell next to the coast and has not reached the
\* land cell beside it.
LandSeaFloatReached ==
    /\ Processed /\ vout.ok /\ vin.dtype = "f4" /\ HasLandMask
    /\ UsedRadius = 1
    /\ \E c \in Cell : \E d \in WindowCells(c, 1) :
           /\ Val(plugin.land_mask)[c] /\ ~Val(plugin.land_mask)[d]
           /\ vin.slices[1].data[d] = 2
           /\ vout.slices[1].data[c] < 2

CoordsMatch ==
    HasLandMask => spatial_coords_match(vin, Val(plugin.land_mask_cube))

IdentityAtUnmasked ==
    /\ vout.ok
    /\ \A z \in 1..Len(vin.slices) : \A c \in Cell :
           ~vin.slices[z].mask[c] => vout.slices[z].data[c] = vin.slices[z].data[c]

\* A physical radius whose quotient by the grid spacing truncates to 0 cells.
RadiusBelowOneCell ==
    /\ ~IsNone(plugin.radius)
    /\ Val(plugin.radius) >= 0
    /\ LET sp == calculate_grid_spacing(vin.xpts)
       IN  sp.ok /\ Val(plugin.radius) * sp.den < sp.num

SentinelOverflow ==
    /\ ~StoreSentinel(vin.dtype, int_cast).ok
    /\ HasLandMask \/ \E z \in 1..Len(vin.slices) : is_masked(vin.slices[z].mask)
    /\ ~vout.ok
    /\ vout.err = "OverflowError"

BothSet == ~IsNone(pargs.radius) /\ ~IsNone(pargs.grid_point_radius)

Constructed ==
    /\ plugin.state = "ok"
    /\ plugin.radius = pargs.radius
    /\ plugin.grid_point_radius = pargs.grid_point_radius

\* C10 as claimed: the constructor fails when radius and grid_point_radius are
\* both set (neither is None, 0 included) and succeeds when at most one is set.
C10_ExactlyBothSetFails ==
    plugin.state # "none" =>
        /\ BothSet => plugin.state = "error"
        /\ ~BothSet => Constructed

\* C10 amended: the constructor fails when both are set, and succeeds when at
\* most one is set and the land mask cube, if one is given, is named
\* land_binary_mask.
C10_BothSetFails ==
    plugin.state # "none" =>
        /\ BothSet => plugin.state = "error"
        /\ (/\ ~BothSet
            /\ (IsNone(pargs.land_mask_cube)
                \/ Val(pargs.land_mask_cube).name = "land_binary_mask")) => Constructed

\* radius = 0 together with grid_point_radius = 0 has been refused.
C10_Witness ==
    /\ pargs.radius = Some(0)
    /\ pargs.grid_point_radius = Some(0)
    /\ plugin.state = "error"

MismatchError == "Supplied cube do not have the same spatial coordinates and land mask"

\* C11: with a land mask whose spatial coordinates differ from the cube's,
\* process fails with the coordinate error, whatever the slices would have
\* given (their own errors included), and returns no slice.
C11_MismatchFailsFirst ==
    (Processed /\ HasLandMask /\ ~CoordsMatch) =>
        /\ ~vout.ok
        /\ vout.err = MismatchError
        /\ vout.slices = <<>>

\* The coordinates differ and the radius is one that no slice can be
\* processed with: the error reported is the one about the coordinates.
C11_Witness ==
    /\ Processed /\ HasLandMask /\ ~CoordsMatch
    /\ ~ResolveRadius(plugin, vin.xpts).ok
    /\ ~vout.ok
    /\ vout.err = MismatchError

\* The call got as far as the data of its slices.
ReachedSlices == Processed /\ CoordsMatch /\ ResolveRadius(plugin, vin.xpts).ok

SentinelNeeded(z) == HasLandMask \/ is_masked(vin.slices[z].mask)

\* For cubes of the given types: the sentinel is stored, is negative and is
\* below every value of the slice, and in a masked slice (without a land
\* mask) the output at an unmasked cell is the maximum over the unmasked
\* cells of its window.
SentinelBelowDataHolds(dtypes) ==
    (ReachedSlices /\ vin.dtype \in dtypes) =>
        \A z \in 1..Len(vin.slices) : SentinelNeeded(z) =>
            LET stored == StoreSentinel(vin.dtype, int_cast)
            IN  /\ stored.ok /\ vout.ok
                /\ stored.val < 0
                /\ \A c \in Cell : stored.val < vin.slices[z].data[c]
                /\ (~HasLandMask) =>
                       \A c \in Cell : ~vin.slices[z].mask[c] =>
                           vout.slices[z].data[c] =
                               SetMax({ vin.slices[z].data[d] :
                                        d \in { e \in WindowCells(c, UsedRadius) :
                                                ~vin.slices[z].mask[e] } })

\* C12: for every data type of the cube (signed integer, unsigned integer,
\* float) the sentinel written into masked cells and into cells of the other
\* land/sea category is negative and smaller than every data value, so that
\* a masked cell never supplies the maximum of a window.
C12_SentinelBelowData == SentinelBelowDataHolds(DTypes)

\* The same for float data only.
SentinelBelowDataFloat == SentinelBelowDataHolds({"f4"})

\* A float slice with a masked cell holding the largest value, whose
\* neighbours did not take it.
SentinelFloatReached ==
    /\ ReachedSlices /\ vout.ok /\ vin.dtype = "f4" /\ ~HasLandMask
    /\ UsedRadius = 1
    /\ \E c \in Cell : \E d \in WindowCells(c, 1) :
           /\ vin.slices[1].mask[d] /\ vin.slices[1].data[d] = 2
           /\ ~vin.slices[1].mask[c]
           /\ vout.slices[1].data[c] < 2

\* C13: for a masked input slice the output has exactly the input's mask,
\* every masked cell keeps its underlying value, and an unmasked cell holds a
\* maximum over a window that contains it (so it is never below its input).
C13_MaskPreserved ==
    (Processed /\ vout.ok) =>
        \A z \in 1..Len(vin.slices) : is_masked(vin.slices[z].mask) =>
            /\ vout.slices[z].mask = vin.slices[z].mask
            /\ \A c \in Cell :
                   IF vin.slices[z].mask[c]
                   THEN vout.slices[z].data[c] = vin.slices[z].data[c]
                   ELSE vout.slices[z].data[c] >= vin.slices[z].data[c]

\* A masked cell holding 2 came back masked and holding 2, whatever its
\* window, while an unmasked cell has taken a maximum from a neighbour.
C13_Witness ==
    /\ Processed /\ vout.ok
    /\ UsedRadius = 1
    /\ \E d \in Cell :
           /\ vin.slices[1].mask[d] /\ vin.slices[1].data[d] = 2
           /\ vout.slices[1].mask[d] /\ vout.slices[1].data[d] = 2
    /\ \E c \in Cell :
           /\ ~vin.slices[1].mask[c] /\ ~vout.slices[1].mask[c]
           /\ vout.slices[1].data[c] > vin.slices[1].data[c]

GivenRadiusConverted ==
    LET conv == distance_to_number_of_grid_cells(vin.xpts, Val(plugin.radius), TRUE)
    IN  /\ ResolveRadius(plugin, vin.xpts) = conv
        /\ ~conv.ok => (~vout.ok /\ vout.err = conv.err)

\* For the physical radii of the given set: a radius that is not None is
\* converted by distance_to_number_of_grid_cells, so that one that is not
\* positive makes process fail; 0 cells by default are used only when
\* neither radius is given.
GivenRadiusHolds(radii) ==
    (Processed /\ CoordsMatch) =>
        /\ (~IsNone(plugin.radius) /\ plugin.radius \in radii) =>
               /\ GivenRadiusConverted
               /\ Val(plugin.radius) <= 0 => ~vout.ok
        /\ (IsNone(plugin.radius) /\ IsNone(plugin.grid_point_radius)) =>
               ResolveRadius(plugin, vin.xpts) = Ret(0, 1)

\* C22: whenever a physical radius is given (radius is not None) the cell
\* count is resolved through distance_to_number_of_grid_cells, so every
\* given radius that is not positive, radius = 0 included, fails with an
\* error; the default of 0 cells is used only when neither radius nor
\* grid_point_radius is given.
C22_GivenRadiusAlwaysConverted == GivenRadiusHolds(Radii)

\* The same for the given radii other than 0.
GivenNonzeroRadiusConverted == GivenRadiusHolds(Radii \ {Some(0)})

\* A negative radius has made process fail with the error of the conversion.
NegativeRadiusReached ==
    /\ Processed /\ CoordsMatch
    /\ ~IsNone(plugin.radius) /\ Val(plugin.radius) < 0
    /\ ~vout.ok
    /\ vout.err = "Please specify a positive distance in metres"

\* The unmasked cells of slice z in the window of c that are of the category
\* of c (all of them without a land mask).
Contributors(z, c) ==
    { d \in WindowCells(c, UsedRadius) :
        /\ ~vin.slices[z].mask[d]
        /\ HasLandMask => SameCategory(c, d) }

\* For cubes of the given types: process returns, and at every unmasked cell
\* the output is at least the input and is the input of one of the cell's
\* contributors.
ExtensiveHolds(dtypes) ==
    (ReachedSlices /\ vin.dtype \in dtypes) =>
        /\ vout.ok
        /\ \A z \in 1..Len(vin.slices) : \A c \in Cell :
               ~vin.slices[z].mask[c] =>
                   /\ vout.slices[z].data[c] >= vin.slices[z].data[c]
                   /\ \E d \in Contributors(z, c) :
                          vout.slices[z].data[c] = vin.slices[z].data[d]

\* C23: for every input slice, radius R >= 0 and land mask (or none), the
\* output at every originally unmasked cell is greater than or equal to the
\* input at that cell and equals the input of some originally unmasked cell
\* of the same category inside the window; the sentinel never appears at an
\* unmasked output cell.
C23_Extensive == ExtensiveHolds(DTypes)

\* The same for float data only.
ExtensiveFloat == ExtensiveHolds({"f4"})

\* A float slice with a masked cell and a land mask, in which an unmasked
\* cell has taken the larger value of a neighbour of its category.
ExtensiveFloatReached ==
    /\ ReachedSlices /\ vout.ok /\ vin.dtype = "f4"
    /\ HasLandMask /\ is_masked(vin.slices[1].mask)
    /\ UsedRadius = 1
    /\ \E c \in Cell : \E d \in Contributors(1, c) :
           /\ ~vin.slices[1].mask[c]
           /\ vin.slices[1].data[d] > vin.slices[1].data[c]
           /\ vout.slices[1].data[c] = vin.slices[1].data[d]

(***************************************************************************)
(* CollapseMaskedNeighbourhoodCoordinate (use_nbhood.py).                  *)
(*                                                                         *)
(* A cube has the dimensions (outer,) masking coordinate, location; the    *)
(* two spatial axes are flattened to Loc.  Its data is val where it is a   *)
(* number and NaN where nan is TRUE; mask is the mask of its masked array  *)
(* (FALSE everywhere for a plain ndarray).  A cube without the outer       *)
(* dimension has the single outer index 1.                                 *)
(*                                                                         *)
(* A weight is the fraction num[o][k][l] / den[o][l]: the weights of one   *)
(* location share their denominator, which is what dividing them by their  *)
(* sum changes.                                                            *)
(***************************************************************************)
NCat == 2          \* bound: points of the masking coordinate
NLoc == 2          \* bound: spatial locations
NOuter == 2        \* bound: points of the outer dimension

Cat == 1..NCat
Loc == 1..NLoc

coord_masked == "topographic_zone"

OuterOf(has_outer) == 1..(IF has_outer THEN NOuter ELSE 1)

WOuter(weights) == 1..(IF weights.ndim = 4 THEN NOuter ELSE 1)

\* Sum of f[k] over the categories k in K.
RECURSIVE SumCat(_, _)
SumCat(f, K) ==
    IF K = {} THEN 0
    ELSE LET k == CHOOSE j \in K : TRUE
         IN  f[k] + SumCat(f, K \ {k})

\* WeightsUtilities.normalise_weights(weights, axis): the weights divided by
\* their sum along the masking-coordinate axis (masked weights are left out of
\* the sum); where the sum is zero the weights are left as they are.
normalise_weights(num, den, mask, wouter) ==
    [o \in wouter |-> [l \in Loc |->
        LET total == SumCat([k \in Cat |-> num[o][k][l]],
                            { k \in Cat : ~mask[o][k][l] })
        IN  IF total = 0 THEN den[o][l] ELSE total]]

\* Variant: the weights normalised before the NaN cells are set to zero.
reweight_weights_swapped(weights, nbnan) ==
    LET condition == [o \in WOuter(weights) |-> [k \in Cat |-> [l \in Loc |->
                         nbnan[o][k][l] /\ ~weights.mask[o][k][l]]]]
    IN  [weights EXCEPT
            !.num = [o \in WOuter(weights) |-> [k \in Cat |-> [l \in Loc |->
                        IF condition[o][k][l] THEN 0 ELSE weights.num[o][k][l]]]],
            !.den = normalise_weights(weights.num, weights.den, weights.mask,
                                      WOuter(weights))]

\* Variant: the weights of a location are kept when every category is NaN
\* there.
reweight_weights_keep_all_nan(weights, nbnan) ==
    LET zeroed == [o \in WOuter(weights) |-> [k \in Cat |-> [l \in Loc |->
                      IF /\ nbnan[o][k][l] /\ ~weights.mask[o][k][l]
                         /\ \E j \in Cat : ~nbnan[o][j][l]
                      THEN 0 ELSE weights.num[o][k][l]]]]
    IN  [weights EXCEPT
            !.num = zeroed,
            !.den = normalise_weights(zeroed, weights.den, weights.mask, WOuter(weights))]

\* Variant: the mask of the weights is not consulted; assigning to a masked
\* cell unmasks it.
reweight_weights_ignoring_mask(weights, nbnan) ==
    LET zeroed == [o \in WOuter(weights) |-> [k \in Cat |-> [l \in Loc |->
                      IF nbnan[o][k][l] THEN 0 ELSE weights.num[o][k][l]]]]
        mask == [o \in WOuter(weights) |-> [k \in Cat |-> [l \in Loc |->
                    weights.mask[o][k][l] /\ ~nbnan[o][k][l]]]]
    IN  [weights EXCEPT
            !.num = zeroed,
            !.mask = mask,
            !.den = normalise_weights(zeroed, weights.den, mask, WOuter(weights))]

\* reweight_weights(self, nbhood_cube): nbnan is np.isnan(nbhood_cube.data),
\* of the shape of the weights.
reweight_weights(weights, nbnan) ==
    LET condition == [o \in WOuter(weights) |-> [k \in Cat |-> [l \in Loc |->
                         nbnan[o][k][l] /\ ~weights.mask[o][k][l]]]]
        zeroed == [o \in WOuter(weights) |-> [k \in Cat |-> [l \in Loc |->
                      IF condition[o][k][l] THEN 0 ELSE weights.num[o][k][l]]]]
    IN  [weights EXCEPT
            !.num = zeroed,
            !.den = normalise_weights(zeroed, weights.den, weights.mask, WOuter(weights))]

\* Variant: the NaNs are left unmasked.
masked_invalid_skipped(cube) == cube

\* ma.masked_invalid(cube.data)
masked_invalid(cube) ==
    [cube EXCEPT !.mask = [o \in OuterOf(cube.has_outer) |-> [k \in Cat |-> [l \in Loc |->
                              cube.mask[o][k][l] \/ cube.nan[o][k][l]]]]]

Masked == [masked |-> TRUE, nan |-> FALSE, num |-> 0, den |-> 1]

NotANumber == [masked |-> FALSE, nan |-> TRUE, num |-> 0, den |-> 1]

\* slice_3d.collapsed(coord_masked, iris.analysis.MEAN, weights=weights) at
\* one location: ma.average over the categories whose data (and weight) is
\* not masked; a zero sum of weights gives a masked result, a NaN that is not
\* masked gives NaN.  val, nan, mask, wnum and wmask are functions of the
\* category; without weights every wnum is 1.
WeightedMean(val, nan, mask, wnum, wmask) ==
    LET K == { k \in Cat : ~mask[k] /\ ~wmask[k] }
        scl == SumCat(wnum, K)
    IN  IF \E k \in K : nan[k] THEN NotANumber
        ELSE IF scl = 0 THEN Masked
        ELSE [masked |-> FALSE, nan |-> FALSE,
              num |-> SumCat([k \in Cat |-> wnum[k] * val[k]], K),
              den |-> scl]

CellMethod(method, coord_names) == [method |-> method, coord_names |-> coord_names]

\* Variant: every cell method that names the coordinate is dropped.
RemoveMaskedCoord_any(coords, cell_methods) ==
    [coords |-> coords \ {coord_masked},
     cell_methods |->
         SelectSeq(cell_methods,
                   LAMBDA m : \A i \in 1..Len(m.coord_names) :
                                 m.coord_names[i] # coord_masked)]

\* The coordinate removed from the result, the cell methods over it alone dropped.
RemoveMaskedCoord(coords, cell_methods) ==
    [coords |-> coords \ {coord_masked},
     cell_methods |-> SelectSeq(cell_methods,
                                LAMBDA m : m.coord_names # <<coord_masked>>)]

ShapesMatch(weights, cube) ==
    (weights.ndim = 4 /\ cube.has_outer) \/ (weights.ndim = 3 /\ ~cube.has_outer)

ColRaise(msg) ==
    [ok |-> FALSE, err |-> msg, has_outer |-> FALSE, data |-> <<>>,
     coords |-> {}, cell_methods |-> <<>>]

\* Variant: weights of another shape reweighted from the last 3D slice.
CollapseMaskedNeighbourhoodCoordinate_process_last_slice(w, cube) ==
    LET cube1 == masked_invalid(cube)
        firstSliceOnly == ~IsNone(w) /\ ~ShapesMatch(Val(w), cube1)
        indexable == ~IsNone(w) /\ (firstSliceOnly => Val(w).ndim = 3)
        w1 == IF IsNone(w) \/ ~indexable THEN w
              ELSE IF firstSliceOnly
              THEN Some(reweight_weights(Val(w), <<cube1.nan[IF cube1.has_outer THEN NOuter ELSE 1]>>))
              ELSE Some(reweight_weights(Val(w), cube1.nan))
        collapsible == IsNone(w1) \/ Val(w1).ndim = 3
        collapsed ==
            [o \in OuterOf(cube1.has_outer) |-> [l \in Loc |->
                WeightedMean([k \in Cat |-> cube1.val[o][k][l]],
                             [k \in Cat |-> cube1.nan[o][k][l]],
                             [k \in Cat |-> cube1.mask[o][k][l]],
                             [k \in Cat |-> IF IsNone(w1) THEN 1 ELSE Val(w1).num[1][k][l]],
                             [k \in Cat |-> IF IsNone(w1) THEN FALSE
                                            ELSE Val(w1).mask[1][k][l]])]]
        meta == RemoveMaskedCoord(
                    cube1.coords,
                    Append(cube1.cell_methods, CellMethod("mean", <<coord_masked>>)))
    IN  [weights |-> w1,
         cube |-> cube1,
         out |-> IF ~IsNone(w) /\ ~indexable
                 THEN ColRaise("boolean index did not match the weights")
                 ELSE IF ~collapsible
                 THEN ColRaise("weights do not have the shape of the 3D slice")
                 ELSE [ok |-> TRUE, err |-> "", has_outer |-> cube1.has_outer,
                       data |-> collapsed,
                       coords |-> meta.coords, cell_methods |-> meta.cell_methods]]

\* Variant: a 3D slice collapsed with the weights of its own outer index when
\* the weights have the outer dimension.
CollapseMaskedNeighbourhoodCoordinate_process_per_slice(w, cube) ==
    LET cube1 == masked_invalid(cube)
        firstSliceOnly == ~IsNone(w) /\ ~ShapesMatch(Val(w), cube1)
        indexable == ~IsNone(w) /\ (firstSliceOnly => Val(w).ndim = 3)
        w1 == IF IsNone(w) \/ ~indexable THEN w
              ELSE IF firstSliceOnly
              THEN Some(reweight_weights(Val(w), <<cube1.nan[1]>>))
              ELSE Some(reweight_weights(Val(w), cube1.nan))
        collapsible == TRUE
        collapsed ==
            [o \in OuterOf(cube1.has_outer) |-> [l \in Loc |->
                WeightedMean([k \in Cat |-> cube1.val[o][k][l]],
                             [k \in Cat |-> cube1.nan[o][k][l]],
                             [k \in Cat |-> cube1.mask[o][k][l]],
                             [k \in Cat |-> IF IsNone(w1) THEN 1
                                            ELSE Val(w1).num[IF Val(w1).ndim = 4 THEN o ELSE 1][k][l]],
                             [k \in Cat |-> IF IsNone(w1) THEN FALSE
                                            ELSE Val(w1).mask[IF Val(w1).ndim = 4 THEN o ELSE 1][k][l]])]]
        meta == RemoveMaskedCoord(
                    cube1.coords,
                    Append(cube1.cell_methods, CellMethod("mean", <<coord_masked>>)))
    IN  [weights |-> w1,
         cube |-> cube1,
         out |-> IF ~IsNone(w) /\ ~indexable
                 THEN ColRaise("boolean index did not match the weights")
                 ELSE IF ~collapsible
                 THEN ColRaise("weights do not have the shape of the 3D slice")
                 ELSE [ok |-> TRUE, err |-> "", has_outer |-> cube1.has_outer,
                       data |-> collapsed,
                       coords |-> meta.coords, cell_methods |-> meta.cell_methods]]

\* process(self, cube) with self.weights = w (None or Some(weights)).  Gives
\* the weights object, the caller's cube and the result (or error) after it.
CollapseMaskedNeighbourhoodCoordinate_process(w, cube) ==
    LET cube1 == masked_invalid(cube)
        firstSliceOnly == ~IsNone(w) /\ ~ShapesMatch(Val(w), cube1)
        indexable == ~IsNone(w) /\ (firstSliceOnly => Val(w).ndim = 3)
        w1 == IF IsNone(w) \/ ~indexable THEN w
              ELSE IF firstSliceOnly
              THEN Some(reweight_weights(Val(w), <<cube1.nan[1]>>))
              ELSE Some(reweight_weights(Val(w), cube1.nan))
        collapsible == IsNone(w1) \/ Val(w1).ndim = 3
        collapsed ==
            [o \in OuterOf(cube1.has_outer) |-> [l \in Loc |->
                WeightedMean([k \in Cat |-> cube1.val[o][k][l]],
                             [k \in Cat |-> cube1.nan[o][k][l]],
                             [k \in Cat |-> cube1.mask[o][k][l]],
                             [k \in Cat |-> IF IsNone(w1) THEN 1 ELSE Val(w1).num[1][k][l]],
                             [k \in Cat |-> IF IsNone(w1) THEN FALSE
                                            ELSE Val(w1).mask[1][k][l]])]]
        meta == RemoveMaskedCoord(
                    cube1.coords,
                    Append(cube1.cell_methods, CellMethod("mean", <<coord_masked>>)))
    IN  [weights |-> w1,
         cube |-> cube1,
         out |-> IF ~IsNone(w) /\ ~indexable
                 THEN ColRaise("boolean index did not match the weights")
                 ELSE IF ~collapsible
                 THEN ColRaise("weights do not have the shape of the 3D slice")
                 ELSE [ok |-> TRUE, err |-> "", has_outer |-> cube1.has_outer,
                       data |-> collapsed,
                       coords |-> meta.coords, cell_methods |-> meta.cell_methods]]

(***************************************************************************)
(* Inputs of the collapse specification.                                   *)
(***************************************************************************)
WeightLevels == {0, 1, 3}

\* The weights of one location, by category; location l takes the vector
\* rotated by l - 1 places.
WeightVectors == { wv \in [Cat -> WeightLevels] : \E k \in Cat : wv[k] > 0 }

WeightsCube(wv, ndim, maskedCells) ==
    LET wo == 1..(IF ndim = 4 THEN NOuter ELSE 1)
        num == [o \in wo |-> [k \in Cat |-> [l \in Loc |->
                   wv[((k + l - 2) % NCat) + 1]]]]
        total == SumCat(wv, Cat)
    IN  [ndim |-> ndim,
         num |-> num,
         den |-> [o \in wo |-> [l \in Loc |-> total]],
         mask |-> [o \in wo |-> [k \in Cat |-> [l \in Loc |-> <<k, l>> \in maskedCells]]]]

WeightsTried ==
    {None} \cup
    { Some(WeightsCube(wv, ndim, m)) :
        wv \in WeightVectors, ndim \in {3, 4},
        m \in {{}} \cup { {kl} : kl \in Cat \X Loc } }

CubeValue(o, k, l) == 10 * k + 2 * o + l

\* NaN patterns: some categories undefined at one location of one outer
\* index; some categories undefined everywhere; some categories undefined at
\* one location of the first outer index and the others at that location of
\* the later ones.
NanPatterns(has_outer) ==
    { [o \in OuterOf(has_outer) |-> [k \in Cat |-> [l \in Loc |->
          o = o0 /\ l = l0 /\ k \in K]]] :
        o0 \in OuterOf(has_outer), l0 \in Loc, K \in SUBSET Cat } \cup
    { [o \in OuterOf(has_outer) |-> [k \in Cat |-> [l \in Loc |-> k \in K]]] :
        K \in SUBSET Cat } \cup
    { [o \in OuterOf(has_outer) |-> [k \in Cat |-> [l \in Loc |->
          l = l0 /\ ((o = 1) <=> (k \in K))]]] :
        l0 \in Loc, K \in SUBSET Cat }

BaseCoords(has_outer) ==
    {coord_masked, "projection_y_coordinate", "projection_x_coordinate"} \cup
    (IF has_outer THEN {"realization"} ELSE {})

NbhoodCube(has_outer, nan, cell_methods) ==
    [has_outer |-> has_outer,
     val |-> [o \in OuterOf(has_outer) |-> [k \in Cat |-> [l \in Loc |->
                 IF nan[o][k][l] THEN 0 ELSE CubeValue(o, k, l)]]],
     nan |-> nan,
     mask |-> [o \in OuterOf(has_outer) |-> [k \in Cat |-> [l \in Loc |-> FALSE]]],
     coords |-> BaseCoords(has_outer),
     cell_methods |-> cell_methods]

CellMethodsTried ==
    { <<CellMethod("mean", <<"realization">>)>>,
      <<CellMethod("sum", <<coord_masked>>),
        CellMethod("maximum", <<coord_masked, "time">>)>>,
      <<CellMethod("maximum", <<"time", coord_masked>>),
        CellMethod("mean", <<coord_masked>>),
        CellMethod("mean", <<"realization">>)>> }

NoNan(has_outer) == [o \in OuterOf(has_outer) |-> [k \in Cat |-> [l \in Loc |-> FALSE]]]

NbhoodCubes ==
    UNION { { NbhoodCube(h, n, <<>>) : n \in NanPatterns(h) } : h \in BOOLEAN } \cup
    { NbhoodCube(h, NoNan(h), cm) : h \in BOOLEAN, cm \in CellMethodsTried }

\* Weights with the outer dimension are tried with cubes that have it.
CubesFor(w) ==
    IF ~IsNone(w) /\ Val(w).ndim = 4
    THEN { c \in NbhoodCubes : c.has_outer }
    ELSE NbhoodCubes

NoCollapse == ColRaise("not called")

ColInit ==
    /\ cw0 \in WeightsTried
    /\ cweights = cw0
    /\ cin = <<>>
    /\ ccube = <<>>
    /\ cout = NoCollapse
    /\ cfirst = <<>>
    /\ gx = <<>> /\ gy = <<>> /\ gop = "none" /\ garg = 0 /\ gres = NoRes
    /\ int_cast = <<>>
    /\ dcube = <<>> /\ dop = "none" /\ dregrid = FALSE /\ dres = <<>>
    /\ acube = <<>> /\ amask = <<>> /\ aout = <<>>
    /\ pargs = <<>> /\ plugin = <<>> /\ vin = <<>> /\ vcube = <<>> /\ vout = <<>>

\* result = CollapseMaskedNeighbourhoodCoordinate(coord_masked, weights).process(cube)
CollapseProcess ==
    /\ cin = <<>>
    /\ \E cube \in CubesFor(cweights) :
        LET r == CollapseMaskedNeighbourhoodCoordinate_process(cweights, cube)
        IN  /\ cin' = cube
            /\ ccube' = r.cube
            /\ cweights' = r.weights
            /\ cout' = r.out
    /\ UNCHANGED <<cw0, cfirst, gridVars, vicVars, diffVars, applyVars>>

\* Variant: every call starts from a copy of the weights the plugin was
\* constructed with.
WeightsAtCall_fresh(constructed, current) == constructed

\* self.weights at the start of a call: the cube the plugin holds, whose data
\* reweight_weights has assigned into and replaced (not a copy made for the
\* call).
WeightsAtCall(constructed, current) == current

\* The fields a second call is tried with: the cube of the first call again
\* (as that call left it), and a field of its shape that is defined
\* everywhere.
CubesAgain ==
    {ccube, NbhoodCube(cin.has_outer, NoNan(cin.has_outer), <<>>)}

\* A second result = plugin.process(cube) on the same plugin instance.
CollapseAgain ==
    /\ cin # <<>>
    /\ cfirst = <<>>
    /\ \E cube \in CubesAgain :
        LET start == WeightsAtCall(cw0, cweights)
            r == CollapseMaskedNeighbourhoodCoordinate_process(start, cube)
        IN  /\ cfirst' = [cube |-> cin, before |-> cw0, after |-> cweights]
            /\ cw0' = start
            /\ cin' = cube
            /\ ccube' = r.cube
            /\ cweights' = r.weights
            /\ cout' = r.out
    /\ UNCHANGED <<gridVars, vicVars, diffVars, applyVars>>

ColNext ==
    \/ CollapseProcess
    \/ CollapseAgain

SpecCollapse == ColInit /\ [][ColNext]_vars

(***************************************************************************)
(* Properties of the collapse specification.                               *)
(***************************************************************************)
Collapsed == cin # <<>>

Reweighted == Collapsed /\ ~IsNone(cw0)

\* np.isnan of the cube handed to reweight_weights by the call.
NbNan == IF ShapesMatch(Val(cw0), cin) THEN cin.nan ELSE <<cin.nan[1]>>

UnmaskedCats(w, o, l) == { k \in Cat : ~w.mask[o][k][l] }

WeightSum(w, o, l, K) == SumCat([k \in Cat |-> w.num[o][k][l]], K)

\* Every category of the location has the same, non-zero, unmasked weight
\* and only the first category is NaN there.
EqualWeightsFirstNan(o, l) ==
    /\ UnmaskedCats(Val(cw0), o, l) = Cat
    /\ \A k \in Cat : /\ Val(cw0).num[o][k][l] > 0
                      /\ Val(cw0).num[o][k][l] * NCat = Val(cw0).den[o][l]
                      /\ NbNan[o][k][l] <=> (k = 1)

\* C2: after reweight_weights every unmasked weight whose neighbourhood value
\* is NaN is 0, and the unmasked weights of a location that still has a
\* non-zero weight sum to 1 along the masking coordinate; equal weights
\* (0.5, 0.5 for two categories) with the first category undefined become 0
\* for it and share 1 between the others (0, 1).
C2_ReweightZeroesAndNormalises ==
    Reweighted =>
        \A o \in WOuter(Val(cweights)) : \A l \in Loc :
            LET w1 == Val(cweights)
                U == UnmaskedCats(Val(cw0), o, l)
            IN  /\ \A k \in U : NbNan[o][k][l] => w1.num[o][k][l] = 0
                /\ (\E k \in U : w1.num[o][k][l] > 0)
                       => WeightSum(w1, o, l, U) = w1.den[o][l]
                /\ EqualWeightsFirstNan(o, l)
                       => /\ w1.num[o][1][l] = 0
                          /\ \A k \in Cat \ {1} :
                                 w1.num[o][k][l] * (NCat - 1) = w1.den[o][l]

C2_Witness ==
    /\ Reweighted
    /\ \E o \in WOuter(Val(cweights)) : \E l \in Loc :
           /\ EqualWeightsFirstNan(o, l)
           /\ Val(cweights).num[o][1][l] = 0
           /\ WeightSum(Val(cweights), o, l, Cat) = Val(cweights).den[o][l]
           /\ Val(cweights).den[o][l] # Val(cw0).den[o][l]

AllNanForWeights(o, l) == \A k \in Cat : NbNan[o][k][l]

AllNanInCube(o, l) == \A k \in Cat : cin.nan[o][k][l]

\* The weights are absent or have the documented coordinates (masking
\* coordinate, y and x).
DocumentedWeights == IsNone(cw0) \/ Val(cw0).ndim = 3

\* C3: where every category is undefined, reweight_weights leaves every
\* unmasked weight of the location equal to 0 (over a non-zero divisor), and
\* process returns a result that is masked at that location.
C3_AllUndefinedGivesMasked ==
    Collapsed =>
        /\ Reweighted =>
               \A o \in WOuter(Val(cweights)) : \A l \in Loc :
                   AllNanForWeights(o, l) =>
                       /\ Val(cweights).den[o][l] > 0
                       /\ \A k \in UnmaskedCats(Val(cw0), o, l) :
                              Val(cweights).num[o][k][l] = 0
        /\ DocumentedWeights =>
               /\ cout.ok
               /\ \A o \in OuterOf(cin.has_outer) : \A l \in Loc :
                      AllNanInCube(o, l) =>
                          cout.data[o][l].masked /\ ~cout.data[o][l].nan

C3_Witness ==
    /\ Reweighted
    /\ cout.ok
    /\ \E l \in Loc :
           /\ AllNanForWeights(1, l) /\ AllNanInCube(1, l)
           /\ \E k \in Cat : Val(cw0).num[1][k][l] > 0 /\ ~Val(cw0).mask[1][k][l]
           /\ \A k \in Cat : Val(cweights).num[1][k][l] = 0
           /\ cout.data[1][l].masked

\* The weight of category k used for the mean at location l: the reweighted
\* weight, or 1 without weights.
UsedWeight(k, l) == IF IsNone(cweights) THEN 1 ELSE Val(cweights).num[1][k][l]

UsedWeightMasked(k, l) == IF IsNone(cweights) THEN FALSE ELSE Val(cweights).mask[1][k][l]

\* The categories that enter the mean at (o, l).
Defined(o, l) == { k \in Cat : ~cin.nan[o][k][l] }

Averaged(o, l) == { k \in Defined(o, l) : ~UsedWeightMasked(k, l) }

\* The result at (o, l) is the mean of the defined values under the
\* reweighted weights.
IsWeightedMean(o, l) ==
    LET K == Averaged(o, l)
        S == SumCat([k \in Cat |-> UsedWeight(k, l)], K)
        r == cout.data[o][l]
    IN  S # 0 =>
            /\ ~r.masked /\ ~r.nan
            /\ r.num * S = r.den * SumCat([k \in Cat |-> UsedWeight(k, l) * CubeValue(o, k, l)], K)

EqualsValue(o, l, k) ==
    LET r == cout.data[o][l]
    IN  ~r.masked /\ ~r.nan /\ r.num = CubeValue(o, k, l) * r.den

\* C4 as stated: the result is the weighted mean of the NaN-excluded values
\* under the reweighted weights, and where exactly one category is defined
\* the result equals that category's value.
C4_SoleDefinedCategoryValue ==
    (Collapsed /\ cout.ok) =>
        \A o \in OuterOf(cin.has_outer) : \A l \in Loc :
            /\ IsWeightedMean(o, l)
            /\ \A k \in Cat : Defined(o, l) = {k} => EqualsValue(o, l, k)

\* C4, amended: the result is the weighted mean of the NaN-excluded values
\* under the reweighted weights; where exactly one category is defined and
\* its reweighted weight is neither masked nor zero the result equals that
\* category's value, and where the weights that enter the mean sum to zero
\* the result is masked.
C4_SoleWeightedCategoryValue ==
    (Collapsed /\ cout.ok) =>
        \A o \in OuterOf(cin.has_outer) : \A l \in Loc :
            /\ IsWeightedMean(o, l)
            /\ \A k \in Cat :
                   (Defined(o, l) = {k} /\ ~UsedWeightMasked(k, l) /\ UsedWeight(k, l) # 0)
                       => EqualsValue(o, l, k)
            /\ SumCat([k \in Cat |-> UsedWeight(k, l)], Averaged(o, l)) = 0
                   => cout.data[o][l].masked

C4_Witness ==
    /\ Reweighted
    /\ cout.ok
    /\ \E o \in OuterOf(cin.has_outer) : \E l \in Loc : \E k \in Cat :
           /\ Defined(o, l) = {k}
           /\ UsedWeight(k, l) # 0 /\ ~UsedWeightMasked(k, l)
           /\ EqualsValue(o, l, k)
    /\ \E o \in OuterOf(cin.has_outer) : \E l \in Loc :
           /\ Defined(o, l) = Cat
           /\ \A k \in Cat : UsedWeight(k, l) # 0 /\ ~UsedWeightMasked(k, l)
           /\ \A k \in Cat : ~EqualsValue(o, l, k)
           /\ ~cout.data[o][l].masked

SolelyOverMaskedCoord(m) == m.coord_names = <<coord_masked>>

\* C5: the returned cube has no coordinate named coord_masked and no cell
\* method over coord_masked alone; every other cell method of the input is
\* kept, in order.
C5_MaskedCoordRemoved ==
    (Collapsed /\ cout.ok) =>
        /\ coord_masked \notin cout.coords
        /\ cout.coords = cin.coords \ {coord_masked}
        /\ \A i \in 1..Len(cout.cell_methods) :
               ~SolelyOverMaskedCoord(cout.cell_methods[i])
        /\ cout.cell_methods =
               SelectSeq(cin.cell_methods, LAMBDA m : ~SolelyOverMaskedCoord(m))

C5_Witness ==
    /\ Collapsed
    /\ cout.ok
    /\ coord_masked \in cin.coords
    /\ coord_masked \notin cout.coords
    /\ \E i \in 1..Len(cin.cell_methods) : SolelyOverMaskedCoord(cin.cell_methods[i])
    /\ \E i \in 1..Len(cout.cell_methods) :
           \E j \in 1..Len(cout.cell_methods[i].coord_names) :
               cout.cell_methods[i].coord_names[j] = coord_masked
    /\ Len(cout.cell_methods) = Len(cin.cell_methods) - 1

\* C15: process does not change the data of the cube passed to it: after the
\* call the cube's values, NaNs and mask are what they were (a NaN cell is
\* still a NaN that is not masked).
C15_InputCubeUnchanged ==
    Collapsed =>
        /\ ccube.val = cin.val
        /\ ccube.nan = cin.nan
        /\ ccube.mask = cin.mask

SecondCall == cfirst # <<>>

\* np.isnan of the cube that a call with weights w and field cube hands to
\* reweight_weights.
NbNanOf(w, cube) == IF ShapesMatch(w, cube) THEN cube.nan ELSE <<cube.nan[1]>>

\* The weight of the cell was set to zero by the first call.
ZeroedByFirst(o, k, l) ==
    /\ NbNanOf(Val(cfirst.before), cfirst.cube)[o][k][l]
    /\ ~Val(cfirst.before).mask[o][k][l]

\* C17: the second of two process calls on the same plugin starts from the
\* weights the first call left, and a weight the first call set to zero
\* because its field was NaN at the cell is still 0 after the second call,
\* even where the second field is defined.
C17_ReweightingPersists ==
    (SecondCall /\ ~IsNone(cfirst.before)) =>
        /\ cw0 = cfirst.after
        /\ \A o \in WOuter(Val(cweights)) : \A k \in Cat : \A l \in Loc :
               ZeroedByFirst(o, k, l) => Val(cweights).num[o][k][l] = 0

\* A weight that was positive, was zeroed by the first call and is 0 after a
\* second call whose field is defined everywhere.
C17_Witness ==
    /\ SecondCall /\ ~IsNone(cfirst.before)
    /\ cin.nan = NoNan(cin.has_outer)
    /\ \E o \in WOuter(Val(cweights)) : \E k \in Cat : \E l \in Loc :
           /\ ZeroedByFirst(o, k, l)
           /\ Val(cfirst.before).num[o][k][l] > 0
           /\ Val(cweights).num[o][k][l] = 0

WeightsMasked(w) ==
    \E o \in WOuter(w) : \E k \in Cat : \E l \in Loc : w.mask[o][k][l]

\* C18: with masked weights, the cells masked before reweight_weights are
\* exactly the cells masked after it, a masked cell keeps the number under
\* its mask, and a weight is changed to 0 only where the neighbourhood
\* result is NaN and the weight is unmasked.
C18_WeightMaskPreserved ==
    (Reweighted /\ WeightsMasked(Val(cw0))) =>
        /\ Val(cweights).mask = Val(cw0).mask
        /\ \A o \in WOuter(Val(cweights)) : \A k \in Cat : \A l \in Loc :
               \/ NbNan[o][k][l] /\ ~Val(cw0).mask[o][k][l]
                  /\ Val(cweights).num[o][k][l] = 0
               \/ Val(cweights).num[o][k][l] = Val(cw0).num[o][k][l]

\* A masked, non-zero weight at a NaN cell is still masked and non-zero,
\* while an unmasked weight at another NaN cell has become 0.
C18_Witness ==
    /\ Reweighted
    /\ \E o \in WOuter(Val(cweights)) : \E k \in Cat : \E l \in Loc :
           /\ Val(cw0).mask[o][k][l] /\ NbNan[o][k][l]
           /\ Val(cw0).num[o][k][l] > 0
           /\ Val(cweights).mask[o][k][l]
           /\ Val(cweights).num[o][k][l] = Val(cw0).num[o][k][l]
    /\ \E o \in WOuter(Val(cweights)) : \E k \in Cat : \E l \in Loc :
           /\ ~Val(cw0).mask[o][k][l] /\ NbNan[o][k][l]
           /\ Val(cw0).num[o][k][l] > 0
           /\ Val(cweights).num[o][k][l] = 0

\* The weights have the shape of one 3D slice and the field has an outer
\* dimension.
ShapesDiffer == Reweighted /\ Val(cw0).ndim = 3 /\ cin.has_outer

\* C19: when the shape of the weights differs from the field's, the weights
\* are reweighted from the NaNs of the first 3D slice only (a weight becomes
\* 0 exactly where it is unmasked and the first slice is NaN, whatever the
\* later slices hold), and every outer slice is collapsed with those same
\* weights.
C19_FirstSliceReweighting ==
    ShapesDiffer =>
        /\ \A k \in Cat : \A l \in Loc :
               Val(cweights).num[1][k][l] =
                   IF cin.nan[1][k][l] /\ ~Val(cw0).mask[1][k][l]
                   THEN 0 ELSE Val(cw0).num[1][k][l]
        /\ cout.ok
        /\ \A o \in OuterOf(cin.has_outer) : \A l \in Loc : IsWeightedMean(o, l)

\* A category that is NaN in the second slice only has kept its weight, one
\* that is NaN in the first slice has lost it.
C19_Witness ==
    /\ ShapesDiffer
    /\ cout.ok
    /\ \E l \in Loc :
           /\ \E k \in Cat :
                  /\ ~cin.nan[1][k][l] /\ cin.nan[2][k][l]
                  /\ Val(cw0).num[1][k][l] > 0
                  /\ Val(cweights).num[1][k][l] = Val(cw0).num[1][k][l]
           /\ \E k \in Cat :
                  /\ cin.nan[1][k][l] /\ ~cin.nan[2][k][l]
                  /\ Val(cw0).num[1][k][l] > 0
                  /\ Val(cweights).num[1][k][l] = 0

\* The weights have the outer dimension, as the field has.
FullShape == Reweighted /\ Val(cw0).ndim = 4 /\ cin.has_outer

\* The weights have been reweighted from the whole field: a weight is 0
\* where it is unmasked and the field is NaN at its own cell, and otherwise
\* what it was.
ReweightedFromFullField ==
    \A o \in WOuter(Val(cweights)) : \A k \in Cat : \A l \in Loc :
        Val(cweights).num[o][k][l] =
            IF cin.nan[o][k][l] /\ ~Val(cw0).mask[o][k][l]
            THEN 0 ELSE Val(cw0).num[o][k][l]

\* The result at (o, l) is the mean of the defined values under the weights
\* of outer index o.
IsWeightedMeanOfSlice(o, l) ==
    LET w == Val(cweights)
        K == { k \in Defined(o, l) : ~w.mask[o][k][l] }
        S == SumCat([k \in Cat |-> w.num[o][k][l]], K)
        r == cout.data[o][l]
    IN  S # 0 =>
            /\ ~r.masked /\ ~r.nan
            /\ r.num * S =
                   r.den * SumCat([k \in Cat |-> w.num[o][k][l] * CubeValue(o, k, l)], K)

SameCubeAgain ==
    /\ SecondCall
    /\ cin.has_outer = cfirst.cube.has_outer
    /\ cin.nan = cfirst.cube.nan
    /\ cin.val = cfirst.cube.val

\* The two weights arrays hold the same fractions under the same mask.
SameWeights(a, b) ==
    /\ a.ndim = b.ndim
    /\ a.mask = b.mask
    /\ \A o \in WOuter(a) : \A k \in Cat : \A l \in Loc :
           a.num[o][k][l] * b.den[o][l] = b.num[o][k][l] * a.den[o][l]

\* Where a has weight 0, b has weight 0.
ZerosKept(a, b) ==
    \A o \in WOuter(a) : \A k \in Cat : \A l \in Loc :
        a.num[o][k][l] = 0 => b.num[o][k][l] = 0

\* C24: reweight_weights called a second time with the same neighbourhood
\* cube leaves the weights equal to those after the first call, and over the
\* calls made, with the same cube or another, a weight that is 0 stays 0.
C24_ReweightIdempotent ==
    (SecondCall /\ ~IsNone(cfirst.before)) =>
        /\ SameCubeAgain => SameWeights(Val(cweights), Val(cfirst.after))
        /\ ZerosKept(Val(cfirst.before), Val(cfirst.after))
        /\ ZerosKept(Val(cfirst.after), Val(cweights))
        /\ ZerosKept(Val(cfirst.before), Val(cweights))

\* Two calls with one cube, the first of which zeroed a positive weight and
\* raised another at its location, and the second of which changed nothing.
C24_Witness ==
    /\ SameCubeAgain /\ ~IsNone(cfirst.before)
    /\ SameWeights(Val(cweights), Val(cfirst.after))
    /\ ~SameWeights(Val(cfirst.after), Val(cfirst.before))
    /\ \E o \in WOuter(Val(cweights)) : \E k, j \in Cat : \E l \in Loc :
           /\ ZeroedByFirst(o, k, l)
           /\ Val(cfirst.before).num[o][k][l] > 0
           /\ Val(cweights).num[o][k][l] = 0
           /\ Val(cweights).num[o][j][l] * Val(cfirst.before).den[o][l]
                  > Val(cfirst.before).num[o][j][l] * Val(cweights).den[o][l]

(***************************************************************************)
(* DifferenceBetweenAdjacentGridSquares and                                *)
(* GradientBetweenAdjacentGridSquares (spatial.py).                        *)
(*                                                                         *)
(* A cube is [data, xpts, ypts]: data is a sequence of ny rows of nx       *)
(* values, xpts and ypts the points of its x and y coordinates.  A         *)
(* gradient is kept as the fraction [num, den] in every cell.              *)
(***************************************************************************)
MaxDim == 4        \* bound: longest axis of the cubes tried

Shape(a) == <<Len(a), IF Len(a) = 0 THEN 0 ELSE Len(a[1])>>

\* np.diff of a one-dimensional array
np_diff(a) == [k \in 1..(Len(a) - 1) |-> a[k + 1] - a[k]]

\* calculate_difference(cube, coord_name): np.diff(cube.data, axis=diff_axis)
calculate_difference(cube, axis) ==
    IF axis = "x"
    THEN [i \in 1..Len(cube.data) |-> np_diff(cube.data[i])]
    ELSE [i \in 1..(Len(cube.data) - 1) |->
             [j \in 1..Len(cube.data[i]) |-> cube.data[i + 1][j] - cube.data[i][j]]]

\* mean_points = (points[1:] + points[:-1]) / 2; the points tried have even
\* sums, so the halves are exact.
mean_points(points) ==
    [k \in 1..(Len(points) - 1) |-> (points[k + 1] + points[k]) \div 2]

\* create_difference_cube(cube, coord_name, diff_along_axis): the differences
\* on the cube's coordinates, the differenced one moved to the mid-points.
create_difference_cube(cube, axis, diff_along_axis) ==
    [data |-> diff_along_axis,
     xpts |-> IF axis = "x" THEN mean_points(cube.xpts) ELSE cube.xpts,
     ypts |-> IF axis = "y" THEN mean_points(cube.ypts) ELSE cube.ypts]

DiffRet(x, y) == [ok |-> TRUE, err |-> "", x |-> x, y |-> y]

DiffRaise(msg) == [ok |-> FALSE, err |-> msg, x |-> <<>>, y |-> <<>>]

\* DifferenceBetweenAdjacentGridSquares.process(cube): the differences along
\* x and along y.
DifferenceBetweenAdjacentGridSquares_process(cube) ==
    DiffRet(create_difference_cube(cube, "x", calculate_difference(cube, "x")),
            create_difference_cube(cube, "y", calculate_difference(cube, "y")))

AxisPoints(cube, axis) == IF axis = "x" THEN cube.xpts ELSE cube.ypts

\* _gradient_from_diff(diff, axis): the differences divided by the first
\* difference of the mid-points; the index [0] fails when there is a single
\* mid-point.
gradient_from_diff(diff, axis) ==
    LET spacings == np_diff(AxisPoints(diff, axis))
    IN  IF Len(spacings) = 0
        THEN [ok |-> FALSE, err |-> "IndexError", data |-> <<>>]
        ELSE [ok |-> TRUE, err |-> "",
              data |-> [i \in 1..Len(diff.data) |-> [j \in 1..Len(diff.data[i]) |->
                           [num |-> diff.data[i][j], den |-> spacings[1]]]]]

\* _create_output_cube(gradient, diff, cube, axis): the gradient on the
\* coordinates of the difference cube.
create_output_cube(gradient, diff) ==
    [data |-> gradient, xpts |-> diff.xpts, ypts |-> diff.ypts]

\* Linear interpolation (with linear extrapolation) of the values v at the
\* points sp to the point t.
Interpolate(v, sp, t) ==
    LET n == Len(sp)
        inside == { k \in 1..(n - 1) :
                      \/ sp[k] <= t /\ t <= sp[k + 1]
                      \/ sp[k + 1] <= t /\ t <= sp[k] }
        k == IF inside # {} THEN CHOOSE j \in inside : \A m \in inside : j <= m
             ELSE IF Abs(t - sp[1]) < Abs(t - sp[n]) THEN 1 ELSE n - 1
        h == sp[k + 1] - sp[k]
    IN  [num |-> v[k].num * v[k + 1].den * h
                 + (v[k + 1].num * v[k].den - v[k].num * v[k + 1].den) * (t - sp[k]),
         den |-> v[k].den * v[k + 1].den * h]

\* grad_cube.regrid(cube, iris.analysis.Linear()): the gradient interpolated
\* from the mid-points of the differenced axis to the points of the cube; on
\* the other axis the points are the cube's already.
regrid(grad_cube, cube, axis) ==
    [data |->
        IF axis = "x"
        THEN [i \in 1..Len(cube.ypts) |-> [j \in 1..Len(cube.xpts) |->
                 Interpolate(grad_cube.data[i], grad_cube.xpts, cube.xpts[j])]]
        ELSE [i \in 1..Len(cube.ypts) |-> [j \in 1..Len(cube.xpts) |->
                 Interpolate([k \in 1..Len(grad_cube.ypts) |-> grad_cube.data[k][j]],
                             grad_cube.ypts, cube.ypts[i])]],
     xpts |-> cube.xpts,
     ypts |-> cube.ypts]

\* The gradient cube of one axis, or the error.
GradientAlong(regrid_flag, cube, diff, axis) ==
    LET gradient == gradient_from_diff(diff, axis)
    IN  IF ~gradient.ok THEN gradient
        ELSE LET grad_cube == create_output_cube(gradient.data, diff)
             IN  [ok |-> TRUE, err |-> "",
                  data |-> IF regrid_flag THEN regrid(grad_cube, cube, axis)
                           ELSE grad_cube]

\* GradientBetweenAdjacentGridSquares(regrid).process(cube): x first, then y.
GradientBetweenAdjacentGridSquares_process(regrid_flag, cube) ==
    LET diffs == DifferenceBetweenAdjacentGridSquares_process(cube)
        gx_ == GradientAlong(regrid_flag, cube, diffs.x, "x")
        gy_ == GradientAlong(regrid_flag, cube, diffs.y, "y")
    IN  IF ~gx_.ok THEN DiffRaise(gx_.err)
        ELSE IF ~gy_.ok THEN DiffRaise(gy_.err)
        ELSE DiffRet(gx_.data, gy_.data)

(***************************************************************************)
(* Inputs of the difference specification.                                 *)
(***************************************************************************)
DataKinds == {"x", "y", "plane", "product", "square"}

DataValue(kind, i, j) ==
    CASE kind = "x" -> j
      [] kind = "y" -> 3 * i
      [] kind = "plane" -> 2 * i - 5 * j
      [] kind = "product" -> i * j
      [] kind = "square" -> i * i + j * j * j

\* Coordinate steps along x and y (even, so that the mid-points are whole).
AxisSteps == {<<2, 2>>, <<4, -2>>}

DiffCube(ny, nx, kind, st) ==
    [data |-> [i \in 1..ny |-> [j \in 1..nx |-> DataValue(kind, i, j)]],
     xpts |-> [j \in 1..nx |-> (j - 1) * st[1]],
     ypts |-> [i \in 1..ny |-> 10 + (i - 1) * st[2]]]

\* Every axis has at least two points.
DiffCubes ==
    { DiffCube(ny, nx, kind, st) :
        ny \in 2..MaxDim, nx \in 2..MaxDim, kind \in DataKinds, st \in AxisSteps }

DiffInit ==
    /\ dcube \in DiffCubes
    /\ dop = "none"
    /\ dregrid = FALSE
    /\ dres = DiffRaise("not called")
    /\ gx = <<>> /\ gy = <<>> /\ gop = "none" /\ garg = 0 /\ gres = NoRes
    /\ int_cast = <<>>
    /\ pargs = <<>> /\ plugin = <<>> /\ vin = <<>> /\ vcube = <<>> /\ vout = <<>>
    /\ cw0 = <<>> /\ cweights = <<>> /\ cin = <<>> /\ ccube = <<>> /\ cout = <<>>
    /\ cfirst = <<>>
    /\ acube = <<>> /\ amask = <<>> /\ aout = <<>>

\* diffs = DifferenceBetweenAdjacentGridSquares().process(cube)
Difference ==
    /\ dop = "none"
    /\ dop' = "difference"
    /\ dres' = DifferenceBetweenAdjacentGridSquares_process(dcube)
    /\ UNCHANGED <<dcube, dregrid, gridVars, vicVars, colVars, applyVars>>

\* gradients = GradientBetweenAdjacentGridSquares(regrid).process(cube)
Gradient ==
    /\ dop = "none"
    /\ \E regrid_flag \in BOOLEAN :
        /\ dregrid' = regrid_flag
        /\ dres' = GradientBetweenAdjacentGridSquares_process(regrid_flag, dcube)
    /\ dop' = "gradient"
    /\ UNCHANGED <<dcube, gridVars, vicVars, colVars, applyVars>>

DiffNext ==
    \/ Difference
    \/ Gradient

SpecDiff == DiffInit /\ [][DiffNext]_vars

(***************************************************************************)
(* Properties of the difference specification.                             *)
(***************************************************************************)
NYOf == Len(dcube.data)

NXOf == Len(dcube.data[1])

\* The x-difference has shape (ny, nx-1) and the y-difference (ny-1, nx),
\* with entries data[i+1] - data[i] along the axis.
ForwardDifferences ==
    /\ dres.ok
    /\ Shape(dres.x.data) = <<NYOf, NXOf - 1>>
    /\ Shape(dres.y.data) = <<NYOf - 1, NXOf>>
    /\ \A i \in 1..NYOf : \A j \in 1..(NXOf - 1) :
           dres.x.data[i][j] = dcube.data[i][j + 1] - dcube.data[i][j]
    /\ \A i \in 1..(NYOf - 1) : \A j \in 1..NXOf :
           dres.y.data[i][j] = dcube.data[i + 1][j] - dcube.data[i][j]

GradientShapes ==
    /\ dres.ok
    /\ Shape(dres.x.data) = IF dregrid THEN <<NYOf, NXOf>> ELSE <<NYOf, NXOf - 1>>
    /\ Shape(dres.y.data) = IF dregrid THEN <<NYOf, NXOf>> ELSE <<NYOf - 1, NXOf>>

\* C16: for an input of shape (ny, nx) the difference plugin returns an
\* x-difference of shape (ny, nx-1) and a y-difference of shape (ny-1, nx)
\* whose entries are data[i+1] - data[i] along the axis; the gradient plugin
\* returns cubes of those shapes with regrid=False and of shape (ny, nx) with
\* regrid=True.
C16_DifferenceAndGradientShapes ==
    /\ dop = "difference" => ForwardDifferences
    /\ dop = "gradient" => GradientShapes

\* The same with the gradient taken only of cubes with three or more points
\* along both axes.
DifferenceAndGradientShapesFrom3 ==
    /\ dop = "difference" => ForwardDifferences
    /\ (dop = "gradient" /\ NYOf >= 3 /\ NXOf >= 3) => GradientShapes

\* A regridded gradient of a cube with unequal differences has been returned.
GradientFrom3Reached ==
    /\ dop = "gradient" /\ dregrid /\ dres.ok
    /\ NYOf >= 3 /\ NXOf >= 3
    /\ Shape(dres.x.data) = <<NYOf, NXOf>>
    /\ dres.x.data[1][1].num * dres.x.data[1][2].den
           # dres.x.data[1][2].num * dres.x.data[1][1].den

(***************************************************************************)
(* ApplyNeighbourhoodProcessingWithAMask (use_nbhood.py).                  *)
(*                                                                         *)
(* The cube has at most one dimension before its two spatial ones, the     *)
(* outer dimension, with the points outer (None without it); slice i of    *)
(* the cube carries the point outer[i] as a scalar coordinate.  A 2D       *)
(* slice is flattened to the cells 1..ACells of a row.  The mask cube has  *)
(* the masking coordinate as its leading dimension, with the points cats   *)
(* in the order of the mask cube, and a 0/1 mask per category.             *)
(***************************************************************************)
MaxCats == 3       \* bound: categories of the mask cube
MaxOuter == 2      \* bound: points of the cube's outer dimension
ACells == 3        \* cells of a 2D slice

ACell == 1..ACells

\* NeighbourhoodProcessing("square", radii, sum_or_fraction="fraction",
\* re_mask=False).process(x_y_slice, mask_cube=cube_slice): at each cell the
\* sum of the data over the unmasked cells of the window divided by their
\* number, not a number where the window has none.
NeighbourhoodProcessing_process(x_y_slice, cube_slice) ==
    [c \in ACell |->
        LET W == { d \in ACell : Abs(d - c) <= 1 /\ cube_slice.mask[d] = 1 }
        IN  IF W = {} THEN [nan |-> TRUE, num |-> 0, den |-> 1]
            ELSE [nan |-> FALSE,
                  num |-> SumSeq([d \in ACell |->
                              IF d \in W THEN x_y_slice.data[d] ELSE 0]),
                  den |-> Cardinality(W)]]

\* cube.slices([yname, xname]): the 2D slices in the order of the outer
\* dimension, each with the point of that dimension as a scalar coordinate.
slices(cube) ==
    IF IsNone(cube.outer)
    THEN << [data |-> cube.data[1], outer |-> None, pos |-> 1,
             has_masking_coord |-> cube.has_masking_coord] >>
    ELSE [i \in 1..Len(Val(cube.outer)) |->
             [data |-> cube.data[i], outer |-> Some(Val(cube.outer)[i]), pos |-> i,
              has_masking_coord |-> cube.has_masking_coord]]

\* mask_cube.slices_over(coord_for_masking): one slice per point of the
\* masking coordinate, in the order of the mask cube.
slices_over(mask_cube) ==
    [k \in 1..Len(mask_cube.cats) |->
        [cat |-> mask_cube.cats[k], mask |-> mask_cube.mask[k], pos |-> k]]

AppliedRet(outer, cats, data, calls) ==
    [ok |-> TRUE, err |-> "", outer |-> outer, cats |-> cats, data |-> data,
     calls |-> calls]

AppliedRaise(msg, calls) ==
    [ok |-> FALSE, err |-> msg, outer |-> None, cats |-> <<>>, data |-> <<>>,
     calls |-> calls]

\* Variant: the pieces joined in the order they were appended.
concatenate_cube_in_order(cube_slices) == cube_slices

\* CubeList.concatenate_cube() of pieces that have one point each along the
\* masking dimension: iris orders the pieces by that point, ascending.
concatenate_cube(cube_slices) ==
    SortSeq(cube_slices, LAMBDA a, b : a.cat < b.cat)

\* CubeList.merge_cube() of cubes that differ in one scalar coordinate: iris
\* builds the new dimension from the sorted values of that coordinate.
merge_cube(result_slices) ==
    SortSeq(result_slices, LAMBDA a, b : Val(a.outer) < Val(b.outer))

\* check_cube_coordinates(cube, new_cube, exception_coordinates): a scalar
\* coordinate of new_cube that is a dimension of cube becomes a dimension
\* again, and the dimensions are put in the order of cube's; the points along
\* a dimension stay in the order they have.
check_cube_coordinates(cube, new_cube) == new_cube

\* ApplyNeighbourhoodProcessingWithAMask.process(cube, mask_cube): the cube
\* returned, as the points of its outer and masking dimensions and the 2D
\* result at each pair of positions, or the error; calls lists the
\* applications of the neighbourhood plugin made, as pairs of positions
\* (slice of the cube, slice of the mask cube).
ApplyNeighbourhoodProcessingWithAMask_process(cube, mask_cube) ==
    LET xy == slices(cube)
        ms == slices_over(mask_cube)
        calls == [n \in 1..(Len(xy) * Len(ms)) |->
                     << ((n - 1) \div Len(ms)) + 1, ((n - 1) % Len(ms)) + 1 >>]
        output_cube(x_y_slice, cube_slice) ==
            [data |-> NeighbourhoodProcessing_process(x_y_slice, cube_slice),
             cat |-> cube_slice.cat]
        concatenated(x_y_slice) ==
            LET joined == concatenate_cube(
                              [k \in 1..Len(ms) |-> output_cube(x_y_slice, ms[k])])
            IN  check_cube_coordinates(x_y_slice,
                    [outer |-> x_y_slice.outer,
                     cats |-> [k \in 1..Len(ms) |-> joined[k].cat],
                     data |-> [k \in 1..Len(ms) |-> joined[k].data]])
        result_slices == [i \in 1..Len(xy) |-> concatenated(xy[i])]
        merged == IF IsNone(cube.outer) THEN result_slices
                  ELSE merge_cube(result_slices)
        result == check_cube_coordinates(cube,
                      [outer |-> IF IsNone(cube.outer) THEN None
                                 ELSE Some([i \in 1..Len(merged) |-> Val(merged[i].outer)]),
                       cats |-> merged[1].cats,
                       data |-> [i \in 1..Len(merged) |-> merged[i].data]])
    IN  IF cube.has_masking_coord
        THEN AppliedRaise("Duplicate coordinates are not permitted.", <<calls[1]>>)
        ELSE AppliedRet(result.outer, result.cats, result.data, calls)

(***************************************************************************)
(* Inputs of the masked neighbourhood specification.                       *)
(***************************************************************************)
\* The strictly monotonic sequences over S, of one point or more: what a
\* dimension coordinate can hold.
RECURSIVE Ascending(_)
Ascending(S) ==
    IF S = {} THEN {<<>>}
    ELSE LET m == CHOOSE v \in S : \A w \in S : w <= v
             rest == Ascending(S \ {m})
         IN  rest \cup { Append(s, m) : s \in rest }

Reversed(s) == [i \in 1..Len(s) |-> s[Len(s) + 1 - i]]

DimCoordPoints(S) ==
    LET asc == Ascending(S) \ {<<>>}
    IN  asc \cup { Reversed(s) : s \in asc }

MaskKinds == {"partition", "all", "first"}

\* The mask of category k (by position) at cell c.
MaskValue(kind, ncats, k, c) ==
    CASE kind = "partition" -> IF ((c - 1) % ncats) + 1 = k THEN 1 ELSE 0
      [] kind = "all" -> 1
      [] kind = "first" -> IF k = 1 /\ c = 1 THEN 1 ELSE 0

MaskCube(cats, kind) ==
    [cats |-> cats,
     mask |-> [k \in 1..Len(cats) |-> [c \in ACell |->
                  MaskValue(kind, Len(cats), k, c)]]]

MaskCubes == { MaskCube(cats, kind) : cats \in DimCoordPoints(1..MaxCats),
                                      kind \in MaskKinds }

FieldKinds == {"ramp", "flat"}

FieldValue(kind, i, c) == IF kind = "ramp" THEN 10 * i + c ELSE 1

FieldCube(outer, kind, has_masking_coord) ==
    [outer |-> outer,
     has_masking_coord |-> has_masking_coord,
     data |-> [i \in 1..(IF IsNone(outer) THEN 1 ELSE Len(Val(outer))) |->
                  [c \in ACell |-> FieldValue(kind, i, c)]]]

FieldCubes ==
    { FieldCube(outer, kind, h) :
        outer \in {None} \cup { Some(p) : p \in DimCoordPoints(0..(MaxOuter - 1)) },
        kind \in FieldKinds, h \in BOOLEAN }

NotApplied == AppliedRaise("not called", <<>>)

ApplyInit ==
    /\ acube \in FieldCubes
    /\ amask \in MaskCubes
    /\ aout = NotApplied
    /\ gx = <<>> /\ gy = <<>> /\ gop = "none" /\ garg = 0 /\ gres = NoRes
    /\ int_cast = <<>>
    /\ pargs = <<>> /\ plugin = <<>> /\ vin = <<>> /\ vcube = <<>> /\ vout = <<>>
    /\ cw0 = <<>> /\ cweights = <<>> /\ cin = <<>> /\ ccube = <<>> /\ cout = <<>>
    /\ cfirst = <<>>
    /\ dcube = <<>> /\ dop = "none" /\ dregrid = FALSE /\ dres = <<>>

\* result = ApplyNeighbourhoodProcessingWithAMask(coord_for_masking, radii)
\*              .process(cube, mask_cube)
ApplyProcess ==
    /\ aout = NotApplied
    /\ aout' = ApplyNeighbourhoodProcessingWithAMask_process(acube, amask)
    /\ UNCHANGED <<acube, amask, gridVars, vicVars, colVars, diffVars>>

ApplyNext == ApplyProcess

SpecApply == ApplyInit /\ [][ApplyNext]_vars


(***************************************************************************)
(* ApplyNeighbourhoodProcessingWithAMask: claim C21 (checked under         *)
(* SpecApply).                                                             *)
(***************************************************************************)
Applied == aout # NotApplied

NOuterSlices == IF IsNone(acube.outer) THEN 1 ELSE Len(Val(acube.outer))

\* The neighbourhood plugin was applied once to every pair (2D slice of the
\* cube, category slice of the mask cube) and to nothing else.
OncePerPair ==
    /\ Len(aout.calls) = NOuterSlices * Len(amask.cats)
    /\ \A i \in 1..NOuterSlices : \A k \in 1..Len(amask.cats) :
           Cardinality({ n \in 1..Len(aout.calls) : aout.calls[n] = <<i, k>> }) = 1

IndexOf(s, v) == CHOOSE i \in 1..Len(s) : s[i] = v

\* What the neighbourhood plugin gives for the slice of the cube at the
\* outer point p (any p without an outer dimension) under the mask of the
\* category of value v.
ResultFor(p, v) ==
    NeighbourhoodProcessing_process(
        [data |-> acube.data[IF IsNone(acube.outer) THEN 1
                             ELSE IndexOf(Val(acube.outer), p)]],
        [mask |-> amask.mask[IndexOf(amask.cats, v)]])

\* Every 2D result of the returned cube is the one of the category and of
\* the outer point that the cube's coordinates give its position.
TaggedResults ==
    \A i \in 1..Len(aout.data) : \A k \in 1..Len(aout.cats) :
        aout.data[i][k] =
            ResultFor(IF IsNone(aout.outer) THEN 0 ELSE Val(aout.outer)[i], aout.cats[k])

SortedPoints(s) == SortSeq(s, LAMBDA a, b : a < b)

====
